---- MODULE Spec2Model ----
(***************************************************************************)
(* loccount 2.0: the concurrent tree walker, the path filter, the          *)
(* classifier's catalog scan and the aggregator of main(), modelled from   *)
(* src/unnamed/part_006 (the 2.0 source of loccount.go).                   *)
(*                                                                         *)
(* A path is a sequence of names below the root the walker was started on  *)
(* (walk(".", filter) after os.Chdir(root)): << >> is ".", <<"a","f.c">>   *)
(* is "a/f.c" (filepath.Join(".", name) cleans the leading "./" away).     *)
(* A file's content is abstracted to what the classifier extracts from it: *)
(* whether it opens, which comment leaders precede a generated-file marker *)
(* in its first lines, what its verifier says and what its counter counts. *)
(* The counters themselves (C-family, generic, Python, Perl, Pascal,       *)
(* Fortran) are modelled on bytes; a file given by its bytes carries the   *)
(* counts that the counter Generic selects for its name makes of them.     *)
(***************************************************************************)
EXTENDS Integers, Sequences, FiniteSets, TLC

(***************************************************************************)
(* Bounds of the model.                                                    *)
(***************************************************************************)
\* goroutines started by walk() (the code starts 16)
Walkers == 2
\* capacity of the work queue ws.v (the code makes it 1024)
QueueCap == 1
\* largest runtime.NumCPU() considered
MaxCPU == 1
\* how many of the tree features are added to the base tree at once
MaxFeatures == 1
\* most files named on a command line
MaxRecords == 3
\* largest SLOC of a file named on a command line
MaxCount == 2
\* most lexical pieces of a file given by its bytes
MaxTokens == 3
\* most lines of a file that speaks of generation
MaxLines == 17

(***************************************************************************)
(* Names and paths.                                                        *)
(***************************************************************************)
\* every name of the model's trees, in the order of sort.Strings (bytewise)
NameOrder ==
  << ".git", ".lnk", "Imakefile", "Makefile", "Makefile.in", "README", "a",
     "b", "d.adb", "e.pas", "f.c", "g.go", "g.h", "gen.c", "h.f", "h.f90",
     "i.exp", "j.p", "k.c", "l.lua", "lib.so.1", "ln.c", "lnd", "m.m", "n.ml",
     "p.py", "q.pl", "q.s", "r.sh", "s", "t.sa", "u.zz", "v.so.d", "w.cpp",
     "x.o", "x.php", "z.c" >>

Names == { NameOrder[i] : i \in 1..Len(NameOrder) }

\* filepath.Ext of a name: from its last dot on
Ext(name) ==
  CASE name \in {"f.c", "gen.c", "k.c", "ln.c", "z.c"} -> ".c"
    [] name = "g.go" -> ".go"
    [] name = "g.h" -> ".h"
    [] name = "l.lua" -> ".lua"
    [] name = "m.m" -> ".m"
    [] name = "n.ml" -> ".ml"
    [] name = "x.php" -> ".php"
    [] name = "p.py" -> ".py"
    [] name = "d.adb" -> ".adb"
    [] name = "e.pas" -> ".pas"
    [] name = "h.f" -> ".f"
    [] name = "h.f90" -> ".f90"
    [] name = "i.exp" -> ".exp"
    [] name = "j.p" -> ".p"
    [] name = "q.pl" -> ".pl"
    [] name = "q.s" -> ".s"
    [] name = "r.sh" -> ".sh"
    [] name = "t.sa" -> ".sa"
    [] name = "u.zz" -> ".zz"
    [] name = "w.cpp" -> ".cpp"
    [] name = "x.o" -> ".o"
    [] name = "lib.so.1" -> ".1"
    [] name = "v.so.d" -> ".d"
    [] name = "Makefile.in" -> ".in"
    [] name = ".git" -> ".git"
    [] name = ".lnk" -> ".lnk"
    [] OTHER -> ""

\* strings.HasSuffix(name, suffix) for the suffixes of the catalog: the
\* extension, the whole name, or the end of a longer name
HasSuffix(name, suffix) ==
  \/ suffix # "" /\ Ext(name) = suffix
  \/ name = suffix
  \/ name = "Imakefile" /\ suffix = "makefile"

\* the name begins with a dot
DotName(name) == name \in {".git", ".lnk"}

\* the name contains ".so."
SoName(name) == name \in {"lib.so.1", "v.so.d"}

\* strings.ToLower(name)
ToLower(name) ==
  CASE name = "README" -> "readme"
    [] name = "Makefile" -> "makefile"
    [] name = "Imakefile" -> "imakefile"
    [] name = "Makefile.in" -> "makefile.in"
    [] OTHER -> name

\* filepath.Base(path); "." for the root
Base(path) == IF path = << >> THEN "." ELSE path[Len(path)]

(***************************************************************************)
(* Tables of init().                                                       *)
(***************************************************************************)
\* the byte 0x60 (a backtick), which no string of a module can hold
Backtick == "0x60"

\* a row of the catalog (type genericLanguage); cfamily is
\* len(commentleader) > 0, the test Generic chooses the counter by
genericLanguage(name, suffix, cl, ct, eol, multi, flags, term, verifier) ==
  [name |-> name, suffix |-> suffix, cfamily |-> cl # "",
   commentleader |-> cl, commenttrailer |-> ct, eolcomment |-> eol,
   multistring |-> multi, flags |-> flags, terminator |-> term,
   verifier |-> verifier]

\* the rows of genericLanguages that a name of the model can match, in the
\* catalog's order
genericLanguages ==
  << genericLanguage("c", ".c", "/*", "*/", "//", "", {"eolwarn", "cbs"},
                     ";", "nil"),
     genericLanguage("c-header", ".h", "/*", "*/", "//", "",
                     {"eolwarn", "cbs"}, ";", "nil"),
     genericLanguage("c++", ".cpp", "/*", "*/", "//", "", {"eolwarn", "cbs"},
                     ";", "nil"),
     genericLanguage("obj-c", ".m", "/*", "*/", "//", "", {"eolwarn", "cbs"},
                     ";", "reallyObjectiveC"),
     genericLanguage("php", ".php", "/*", "*/", "//", "", {"eolwarn", "cbs"},
                     ";", "nil"),
     genericLanguage("php3", ".php", "/*", "*/", "//", "", {"eolwarn", "cbs"},
                     ";", "nil"),
     genericLanguage("php4", ".php", "/*", "*/", "//", "", {"eolwarn", "cbs"},
                     ";", "nil"),
     genericLanguage("php5", ".php", "/*", "*/", "//", "", {"eolwarn", "cbs"},
                     ";", "nil"),
     genericLanguage("php6", ".php", "/*", "*/", "//", "", {"eolwarn", "cbs"},
                     ";", "nil"),
     genericLanguage("php7", ".php", "/*", "*/", "//", "", {"eolwarn", "cbs"},
                     ";", "nil"),
     genericLanguage("go", ".go", "/*", "*/", "//", Backtick,
                     {"eolwarn", "cbs", "gotick"}, "", "nil"),
     genericLanguage("asm", ".s", "/*", "*/", ";", "", {"eolwarn"}, "\n",
                     "nil"),
     genericLanguage("ada", ".adb", "", "", "--", "", {"eolwarn"}, ";",
                     "nil"),
     genericLanguage("makefile", "Makefile", "", "", "#", "", {"eolwarn"},
                     "", "nil"),
     genericLanguage("makefile", "makefile", "", "", "#", "", {"eolwarn"},
                     "", "nil"),
     genericLanguage("makefile", "Imakefile", "", "", "#", "", {"eolwarn"},
                     "", "nil"),
     genericLanguage("sather", ".sa", "", "", "--", "", {"eolwarn"}, ";",
                     "reallySather"),
     genericLanguage("lua", ".lua", "--[[", "]]", "--", "", {"eolwarn"}, "",
                     "nil"),
     genericLanguage("d", ".d", "/+", "+/", "//", "", {"eolwarn"}, ";",
                     "nil"),
     genericLanguage("occam", ".f", "", "", "//", "", {"eolwarn"}, "",
                     "reallyOccam"),
     genericLanguage("prolog", ".pl", "", "", "%", "", {"eolwarn"}, ".",
                     "reallyProlog"),
     genericLanguage("mumps", ".m", "", "", ";", "", {"eolwarn"}, "", "nil"),
     genericLanguage("mumps", ".m", "", "", ";", "", {"eolwarn"}, "", "nil"),
     genericLanguage("pop11", ".p", "", "", ";", "", {"eolwarn"}, "",
                     "reallyPOP11"),
     genericLanguage("autotools", "Makefile.in", "", "", "#", "",
                     {"eolwarn"}, "", "nil") >>

\* the rows of scriptingLanguages, pascalLikes and fortranLikes kept
scriptingLanguages ==
  << [name |-> "tcl", suffix |-> ".tcl", hashbang |-> "tcl",
      verifier |-> "nil"],
     [name |-> "shell", suffix |-> ".sh", hashbang |-> "sh",
      verifier |-> "nil"],
     [name |-> "expect", suffix |-> ".exp", hashbang |-> "expect",
      verifier |-> "reallyExpect"] >>

pascalLikes ==
  << [name |-> "pascal", suffix |-> ".pas", bracketcomments |-> TRUE,
      terminator |-> ";", verifier |-> "nil"],
     [name |-> "pascal", suffix |-> ".p", bracketcomments |-> TRUE,
      terminator |-> ";", verifier |-> "reallyPascal"],
     [name |-> "ml", suffix |-> ".ml", bracketcomments |-> FALSE,
      terminator |-> "", verifier |-> "nil"],
     [name |-> "mli", suffix |-> ".ml", bracketcomments |-> FALSE,
      terminator |-> "", verifier |-> "nil"],
     [name |-> "mll", suffix |-> ".ml", bracketcomments |-> FALSE,
      terminator |-> "", verifier |-> "nil"],
     [name |-> "mly", suffix |-> ".ml", bracketcomments |-> FALSE,
      terminator |-> "", verifier |-> "nil"] >>

fortranLikes ==
  << [name |-> "fortran90", suffix |-> ".f90", comment |-> "f90comment",
      nocomment |-> "f90nocomment"],
     [name |-> "fortran", suffix |-> ".f", comment |-> "f77comment",
      nocomment |-> "f77nocomment"] >>

\* the members of ignoreSuffixes that a name of the model can carry
neverInterestingBySuffix == {".o", ".1", ".a", ".so"}

neverInterestingByBasename == {"readme", "changelog", "todo", "copying"}

cHeaderPriority == << "c", "c++", "obj-c" >>

(***************************************************************************)
(* File contents.  A text is a sequence of bytes, each a one-character     *)
(* string; the strings of the tables are turned into bytes by Bytes.       *)
(***************************************************************************)
\* []byte(s) for the strings of the tables
Bytes(s) ==
  CASE s = "" -> << >>
    [] s = "/*" -> << "/", "*" >>
    [] s = "*/" -> << "*", "/" >>
    [] s = "/+" -> << "/", "+" >>
    [] s = "+/" -> << "+", "/" >>
    [] s = "//" -> << "/", "/" >>
    [] s = "--" -> << "-", "-" >>
    [] s = "--[[" -> << "-", "-", "[", "[" >>
    [] s = "]]" -> << "]", "]" >>
    [] OTHER -> << s >>

\* what ReadByte yields with io.EOF: the zero byte
NUL == ""

Letters ==
  { "a", "b", "c", "d", "e", "f", "g", "h", "i", "j", "k", "l", "m", "n", "o",
    "p", "q", "r", "s", "t", "u", "v", "w", "x", "y", "z", "A", "B", "C", "D",
    "E", "F", "G", "H", "I", "J", "K", "L", "M", "N", "O", "P", "Q", "R", "S",
    "T", "U", "V", "W", "X", "Y", "Z" }

isspace(c) == c \in {" ", "\t", "\r", "\n", "\f"}

\* ctx.ispeek(c) when the next unread byte is text[pos]
ispeek(text, pos, c) == pos <= Len(text) /\ text[pos] = c

\* the position after a getachar at pos: nothing is read at the end of file
Advance(text, pos) == IF pos <= Len(text) THEN pos + 1 ELSE pos

\* the byte a getachar at pos returns
ByteAt(text, pos) == IF pos <= Len(text) THEN text[pos] ELSE NUL

\* bytes.Index(line, sub) + 1: the place of the first sub in line, 0 if none
Index(line, sub) ==
  LET hits == { i \in 1..(Len(line) + 1) :
                  /\ i + Len(sub) - 1 <= Len(line)
                  /\ \A k \in 1..Len(sub) : line[i + k - 1] = sub[k] }
  IN IF hits = {} THEN 0 ELSE CHOOSE i \in hits : \A j \in hits : i <= j

\* the place of the last sub in line, 0 if none
LastIndex(line, sub) ==
  LET hits == { i \in 1..(Len(line) + 1) :
                  /\ i + Len(sub) - 1 <= Len(line)
                  /\ \A k \in 1..Len(sub) : line[i + k - 1] = sub[k] }
  IN IF hits = {} THEN 0 ELSE CHOOSE i \in hits : \A j \in hits : i >= j

Contains(line, sub) == Index(line, sub) # 0

HasPrefix(line, sub) ==
  Len(sub) <= Len(line) /\ \A k \in 1..Len(sub) : line[k] = sub[k]

\* line[:i] in Go for the 1-based place i of a hit: the bytes before it
Before(line, i) == SubSeq(line, 1, i - 1)

\* the bytes of line from place i on
From(line, i) == SubSeq(line, i, Len(line))

\* bytes.Trim(line, cutset)
Trim(line, cutset) ==
  LET keep == { i \in 1..Len(line) : line[i] \notin cutset }
  IN IF keep = {} THEN << >>
     ELSE SubSeq(line, CHOOSE i \in keep : \A j \in keep : i <= j,
                       CHOOSE i \in keep : \A j \in keep : i >= j)

Blank == {" ", "\t", "\r", "\n"}

\* the place of the first "\n" of text at or after pos, 0 if there is none
RECURSIVE NextNewline(_, _)
NextNewline(text, pos) ==
  IF pos > Len(text) THEN 0
  ELSE IF text[pos] = "\n" THEN pos
  ELSE NextNewline(text, pos + 1)

\* ctx.munchline at pos: ReadBytes('\n') gives the line with its newline;
\* at io.EOF it returns false and the bytes read are dropped
munchline(text, pos) ==
  LET n == NextNewline(text, pos)
  IN IF n = 0 THEN [ok |-> FALSE, line |-> << >>, pos |-> Len(text) + 1]
     ELSE [ok |-> TRUE, line |-> SubSeq(text, pos, n), pos |-> n + 1]

(***************************************************************************)
(* The counters.  Each returns a record of the numbers it returns (sloc,   *)
(* lloc) and of what it writes to stderr at the end (diagnostic).          *)
(***************************************************************************)
\* the loop "for { c = getachar(); if c is a stop or io.EOF { break } }" from
\* pos on: the last byte read and the position after it
RECURSIVE ScanUntil(_, _, _)
ScanUntil(text, pos, stops) ==
  IF pos > Len(text) THEN [c |-> NUL, pos |-> pos]
  ELSE IF text[pos] \in stops THEN [c |-> text[pos], pos |-> pos + 1]
  ELSE ScanUntil(text, pos + 1, stops)

\* the character-literal branch after the opening quote: one byte, one more
\* after a backslash, then every byte up to a quote, a newline or io.EOF
CharLiteral(text, pos) ==
  LET c1 == ByteAt(text, pos)
      p1 == Advance(text, pos)
      p2 == IF c1 = "\\" THEN Advance(text, p1) ELSE p1
  IN ScanUntil(text, p2, {"'", "\n"})

\* a counter in which no quote opens a string
NeverOpensString(lexfile, c) == FALSE

\* the test of NORMAL mode for the start of a string: a double quote, in a
\* file that is not flagged lex
OpensString(lexfile, c) == ~lexfile /\ c = "\""

\* cFamilyCounter before its loop: "#" at the start of the file
cFamilyStart(text) ==
  LET hash == ispeek(text, 1, "#")
  IN [pos |-> IF hash THEN 2 ELSE 1, mode |-> "NORMAL",
      commentType |-> "BLOCK", nonblank |-> FALSE, lexfile |-> FALSE,
      sloc |-> 0, lloc |-> IF hash THEN 1 ELSE 0, hung |-> FALSE]

\* one iteration of cFamilyCounter's loop, at a position inside the text
cFamilyStep(text, syntax, s) ==
  LET leader == Bytes(syntax.commentleader)
      trailer == Bytes(syntax.commenttrailer)
      eol == Bytes(syntax.eolcomment)
      multi == Bytes(syntax.multistring)
      terminator == Bytes(syntax.terminator)
      c0 == text[s.pos]
      p0 == s.pos + 1
      b == [c |-> c0, pos |-> p0, mode |-> s.mode,
            commentType |-> s.commentType, nonblank |-> s.nonblank,
            hung |-> FALSE]
      m ==
        CASE s.mode = "NORMAL" ->
               IF OpensString(s.lexfile, c0)
               THEN [b EXCEPT !.nonblank = TRUE, !.mode = "INSTRING"]
               ELSE IF "cbs" \in syntax.flags /\ ~s.lexfile /\ c0 = "'"
               THEN LET lit == CharLiteral(text, p0)
                    IN [b EXCEPT !.nonblank = TRUE, !.c = lit.c,
                                 !.pos = lit.pos]
               ELSE IF c0 = leader[1] /\ ispeek(text, p0, leader[2])
               THEN [b EXCEPT !.c = leader[2], !.pos = p0 + 1,
                              !.mode = "INCOMMENT", !.commentType = "BLOCK"]
               ELSE IF /\ eol # << >>
                       /\ c0 = eol[1]
                       /\ Len(eol) > 1
                       /\ ispeek(text, p0, eol[2])
               THEN [b EXCEPT !.c = eol[2], !.pos = p0 + 1,
                              !.mode = "INCOMMENT",
                              !.commentType = "TRAILING"]
               ELSE IF multi # << >> /\ c0 = multi[1]
               THEN [b EXCEPT !.mode = "INMULTISTRING"]
               ELSE IF "gotick" \in syntax.flags /\ c0 = Backtick
               THEN LET tick == ScanUntil(text, p0, {Backtick})
                    IN IF tick.c = Backtick
                       THEN [b EXCEPT !.c = Backtick, !.pos = tick.pos]
                       ELSE [b EXCEPT !.c = NUL, !.pos = tick.pos,
                                      !.hung = TRUE]
               ELSE IF ~isspace(c0) THEN [b EXCEPT !.nonblank = TRUE]
               ELSE b
          [] s.mode = "INSTRING" ->
               LET n == [b EXCEPT !.nonblank = s.nonblank \/ ~isspace(c0)]
               IN IF c0 = "\"" THEN [n EXCEPT !.mode = "NORMAL"]
                  ELSE IF /\ "cbs" \in syntax.flags
                          /\ c0 = "\\"
                          /\ ispeek(text, p0, "\"") \/ ispeek(text, p0, "\\")
                  THEN [n EXCEPT !.c = text[p0], !.pos = p0 + 1]
                  ELSE IF /\ "cbs" \in syntax.flags
                          /\ c0 = "\\"
                          /\ ispeek(text, p0, "\n")
                  THEN [n EXCEPT !.c = "\n", !.pos = p0 + 1]
                  ELSE n
          [] s.mode = "INMULTISTRING" ->
               LET n == [b EXCEPT !.nonblank = s.nonblank \/ ~isspace(c0)]
               IN IF c0 = multi[1] THEN [n EXCEPT !.mode = "NORMAL"] ELSE n
          [] OTHER ->
               LET n == IF c0 = "\n" /\ s.commentType = "TRAILING"
                        THEN [b EXCEPT !.mode = "NORMAL"]
                        ELSE b
               IN IF /\ s.commentType = "BLOCK"
                     /\ c0 = trailer[1]
                     /\ ispeek(text, p0, trailer[2])
                  THEN [n EXCEPT !.c = trailer[2], !.pos = p0 + 1,
                                 !.mode = "NORMAL"]
                  ELSE n
      newline == m.c = "\n"
      percent == newline /\ ispeek(text, m.pos, "%")
      p1 == IF percent THEN m.pos + 1 ELSE m.pos
      hash == newline /\ ispeek(text, p1, "#")
      p2 == IF hash THEN p1 + 1 ELSE p1
      ends == /\ m.mode = "NORMAL"
              /\ Len(terminator) > 0
              /\ m.c = terminator[1]
  IN [pos |-> p2, mode |-> m.mode, commentType |-> m.commentType,
      nonblank |-> IF newline THEN percent ELSE m.nonblank,
      lexfile |-> s.lexfile \/ percent,
      sloc |-> IF newline /\ m.nonblank THEN s.sloc + 1 ELSE s.sloc,
      lloc |-> s.lloc + (IF hash THEN 1 ELSE 0) + (IF ends THEN 1 ELSE 0),
      hung |-> m.hung]

\* cFamilyCounter's loop from the state s on, up to io.EOF (or for ever,
\* hung, in the backtick loop that no end of file breaks)
RECURSIVE cFamilyLoop(_, _, _)
cFamilyLoop(text, syntax, s) ==
  IF s.hung \/ s.pos > Len(text) THEN s
  ELSE cFamilyLoop(text, syntax, cFamilyStep(text, syntax, s))

\* cFamilyCounter after its loop: EOF without EOL, the diagnostics
cFamilyEnd(s) ==
  [sloc |-> IF s.nonblank THEN s.sloc + 1 ELSE s.sloc,
   lloc |-> s.lloc,
   diagnostic |->
     IF s.mode = "INCOMMENT" /\ s.commentType = "BLOCK" THEN "comment"
     ELSE IF s.mode = "INSTRING" THEN "string"
     ELSE "",
   hung |-> s.hung]

cFamilyCounter(text, syntax) ==
  cFamilyEnd(cFamilyLoop(text, syntax, cFamilyStart(text)))

\* genericCounter's loop over the lines from pos on
RECURSIVE genericLoop(_, _, _, _, _)
genericLoop(text, pos, eolcomment, terminator, acc) ==
  LET m == munchline(text, pos)
      i == Index(m.line, eolcomment)
      cut == IF i > 0 THEN Before(m.line, i) ELSE m.line
      line == Trim(cut, Blank)
      code == Len(line) > 0
      stmt == code /\ Len(terminator) > 0 /\ Contains(line, terminator)
  IN IF ~m.ok THEN acc
     ELSE genericLoop(text, m.pos, eolcomment, terminator,
                      [sloc |-> acc.sloc + (IF code THEN 1 ELSE 0),
                       lloc |-> acc.lloc + (IF stmt THEN 1 ELSE 0)])

\* the same with the two numbers returned in the other order
genericCounterSwapped(text, eolcomment, terminator) ==
  LET c == genericLoop(text, 1, Bytes(eolcomment), Bytes(terminator),
                       [sloc |-> 0, lloc |-> 0])
  IN [sloc |-> c.lloc, lloc |-> c.sloc]

\* genericCounter once the verifier, if any, has accepted
genericCounter(text, eolcomment, terminator) ==
  genericLoop(text, 1, Bytes(eolcomment), Bytes(terminator),
              [sloc |-> 0, lloc |-> 0])

\* []byte(dt) and []byte(st), the triple quotes
dtBytes == << "\"", "\"", "\"" >>

stBytes == << "'", "'", "'" >>

\* dtriple/striple.ReplaceAllLiteral(line, ""): the regexp is q . q for the
\* triple quote q, so it takes out triples around exactly one byte
RECURSIVE DropTriples(_, _)
DropTriples(line, q) ==
  IF line = << >> THEN << >>
  ELSE IF /\ Len(line) >= 7
          /\ SubSeq(line, 1, 3) = q
          /\ line[4] # "\n"
          /\ SubSeq(line, 5, 7) = q
  THEN DropTriples(From(line, 8), q)
  ELSE << line[1] >> \o DropTriples(Tail(line), q)

\* dlonely/slonely.ReplaceAllLiteral(line, ""): ^[ \t]*q[^q]+q for the quote
\* byte q
DropLonely(line, q) ==
  LET lead == { i \in 1..Len(line) : line[i] \notin {" ", "\t"} }
      open == IF lead = {} THEN 0
              ELSE CHOOSE i \in lead : \A j \in lead : i <= j
      rest == From(line, open + 1)
      close == Index(rest, << q >>)
  IN IF open > 0 /\ line[open] = q /\ close > 1
     THEN From(rest, close + 1)
     ELSE line

\* dtrailer/strailer.ReplaceAllLiteral(line, repl): .*q for the triple q; a
\* line holds no newline before its last byte, so the one match runs from
\* the start of the line to the end of its last q
ReplaceTrailer(line, q, repl) ==
  LET i == LastIndex(line, q)
  IN IF i = 0 THEN line ELSE repl \o From(line, i + 3)

tripleBoundary(line) == Contains(line, dtBytes) \/ Contains(line, stBytes)

\* ctx.line[:i] at the first "#", the whole line if there is none
Uncomment(line) ==
  LET i == Index(line, << "#" >>)
  IN IF i > 0 THEN Before(line, i) ELSE line

\* a counter that leaves nothing of the closing line of a string
NoPlaceholder(isincomment) == << >>

\* what replaces a line up to its closing triple quote: nothing in a comment,
\* otherwise "something there to count"
Placeholder(isincomment) == IF isincomment THEN << >> ELSE << "x" >>

\* one iteration of pythonCounter's loop on the line read
pythonLine(line0, s) ==
  LET l1 == Uncomment(line0)
      \* not in a triple
      n1 == DropLonely(DropLonely(DropTriples(DropTriples(l1, dtBytes),
                                              stBytes),
                                  "\""),
                       "'")
      n2 == Uncomment(n1)
      opens == tripleBoundary(n2)
      n3 == IF opens THEN Trim(n2, Blank) ELSE n2
      \* in a triple
      repl == Placeholder(s.isincomment)
      t1 == IF tripleBoundary(l1)
            THEN ReplaceTrailer(ReplaceTrailer(l1, dtBytes, repl), stBytes, repl)
            ELSE l1
      closes == tripleBoundary(l1) /\ ~tripleBoundary(t1)
      isintriple == IF ~s.isintriple THEN opens ELSE ~closes
      isincomment ==
        IF ~s.isintriple
        THEN \/ s.isincomment
             \/ opens /\ (HasPrefix(n3, dtBytes) \/ HasPrefix(n3, stBytes))
        ELSE s.isincomment /\ ~closes
      line == Trim(IF ~s.isintriple THEN n3 ELSE t1, Blank)
      code == ~isincomment /\ Len(line) > 0
      stmt == code /\ line[Len(line)] # "\\"
  IN [isintriple |-> isintriple, isincomment |-> isincomment,
      sloc |-> s.sloc + (IF code THEN 1 ELSE 0),
      lloc |-> s.lloc + (IF stmt THEN 1 ELSE 0)]

RECURSIVE pythonLoop(_, _, _)
pythonLoop(text, pos, s) ==
  LET m == munchline(text, pos)
  IN IF ~m.ok THEN s ELSE pythonLoop(text, m.pos, pythonLine(m.line, s))

pythonCounter(text) ==
  LET s == pythonLoop(text, 1, [isintriple |-> FALSE, isincomment |-> FALSE,
                                sloc |-> 0, lloc |-> 0])
  IN [sloc |-> s.sloc, lloc |-> s.lloc]

\* podheader.Match(line): ^=[a-zA-Z]
podheader(line) == Len(line) >= 2 /\ line[1] = "=" /\ line[2] \in Letters

\* one iteration of perlCounter's loop on the line read; stop is the break
\* at __END__
perlLine(line0, s) ==
  LET line == Trim(Uncomment(line0), Blank)
      i == Index(line, << "<", "<" >>)
      branch ==
        IF s.heredoc # << >> /\ HasPrefix(line, s.heredoc) THEN "endhere"
        ELSE IF i > 0 THEN "here"
        ELSE IF Len(s.heredoc) = 0 /\ HasPrefix(line, << "=", "c", "u", "t" >>)
        THEN "cut"
        ELSE IF Len(s.heredoc) = 0 /\ podheader(line) THEN "pod"
        ELSE IF HasPrefix(line, << "_", "_", "E", "N", "D", "_", "_" >>)
        THEN "end"
        ELSE "code"
      heredoc ==
        CASE branch = "endhere" -> << >>
          [] branch = "here" ->
               Trim(From(line, i), {"<", " ", "\t", "\"", "'", ";", ","})
          [] OTHER -> s.heredoc
      isinpod == CASE branch = "cut" -> FALSE
                   [] branch = "pod" -> TRUE
                   [] OTHER -> s.isinpod
      code == branch \notin {"cut", "end"} /\ ~isinpod /\ Len(line) > 0
      stmt == code /\ Contains(line, << ";" >>)
  IN [heredoc |-> heredoc, isinpod |-> isinpod, stop |-> branch = "end",
      sloc |-> s.sloc + (IF code THEN 1 ELSE 0),
      lloc |-> s.lloc + (IF stmt THEN 1 ELSE 0)]

RECURSIVE perlLoop(_, _, _)
perlLoop(text, pos, s) ==
  LET m == munchline(text, pos)
  IN IF ~m.ok \/ s.stop THEN s ELSE perlLoop(text, m.pos, perlLine(m.line, s))

perlCounter(text) ==
  LET s == perlLoop(text, 1, [heredoc |-> << >>, isinpod |-> FALSE,
                              stop |-> FALSE, sloc |-> 0, lloc |-> 0])
  IN [sloc |-> s.sloc, lloc |-> s.lloc]

\* one iteration of pascalCounter's loop, at a position inside the text
pascalStep(text, syntax, s) ==
  LET terminator == Bytes(syntax.terminator)
      c0 == text[s.pos]
      p0 == s.pos + 1
      b == [s EXCEPT !.pos = p0]
  IN IF s.mode = "NORMAL"
     THEN LET star == c0 = "(" /\ ispeek(text, p0, "*")
              c == IF star /\ ~(syntax.bracketcomments /\ c0 = "{")
                   THEN "*" ELSE c0
              n == IF syntax.bracketcomments /\ c0 = "{"
                   THEN [b EXCEPT !.mode = "INCOMMENT"]
                   ELSE IF star
                   THEN [b EXCEPT !.pos = p0 + 1, !.mode = "INCOMMENT"]
                   ELSE IF ~isspace(c0) THEN [b EXCEPT !.nonblank = TRUE]
                   ELSE IF c0 = "\n"
                   THEN [b EXCEPT !.nonblank = FALSE,
                                  !.sloc = IF s.nonblank THEN @ + 1 ELSE @]
                   ELSE b
          IN IF Len(terminator) > 0 /\ c = terminator[1]
             THEN [n EXCEPT !.lloc = @ + 1]
             ELSE n
     ELSE IF syntax.bracketcomments /\ c0 = "}"
     THEN [b EXCEPT !.mode = "NORMAL"]
     ELSE IF c0 = "*" /\ ispeek(text, p0, ")")
     THEN [b EXCEPT !.pos = p0 + 1, !.mode = "NORMAL"]
     ELSE b

RECURSIVE pascalLoop(_, _, _)
pascalLoop(text, syntax, s) ==
  IF s.pos > Len(text) THEN s
  ELSE pascalLoop(text, syntax, pascalStep(text, syntax, s))

\* pascalCounter once the verifier, if any, has accepted
pascalCounter(text, syntax) ==
  LET s == pascalLoop(text, syntax,
                      [pos |-> 1, mode |-> "NORMAL", nonblank |-> FALSE,
                       sloc |-> 0, lloc |-> 0])
  IN [sloc |-> IF s.nonblank THEN s.sloc + 1 ELSE s.sloc, lloc |-> s.lloc,
      diagnostic |-> IF s.mode = "INCOMMENT" THEN "comment" ELSE ""]

\* the bytes of line after its leading blanks and tabs
AfterBlanks(line) ==
  LET lead == { i \in 1..Len(line) : line[i] \notin {" ", "\t"} }
  IN IF lead = {} THEN << >>
     ELSE From(line, CHOOSE i \in lead : \A j \in lead : i <= j)

\* (hpf|omp)[$] at the start of rest
Directive(rest) ==
  \/ HasPrefix(rest, << "h", "p", "f", "$" >>)
  \/ HasPrefix(rest, << "o", "m", "p", "$" >>)

\* the regexps of fortranLikes matched on a line; $ is the end of the text
\* matched, which for a line that munchline read lies after its newline
FortranMatch(re, line) ==
  CASE re = "f90comment" ->
         HasPrefix(AfterBlanks(line), << "!" >>) \/ AfterBlanks(line) = << >>
    [] re = "f90nocomment" ->
         /\ HasPrefix(AfterBlanks(line), << "!" >>)
         /\ Directive(Tail(AfterBlanks(line)))
    [] re = "f77comment" ->
         \/ line # << >> /\ line[1] \in {"c", "*", "!"}
         \/ line # << >> /\ line[1] \in {" ", "\t"}
              /\ HasPrefix(AfterBlanks(line), << "!" >>)
         \/ AfterBlanks(line) = << >>
    [] OTHER ->
         line # << >> /\ line[1] \in {"c", "*", "!"} /\ Directive(Tail(line))

RECURSIVE fortranLoop(_, _, _, _)
fortranLoop(text, pos, syntax, sloc) ==
  LET m == munchline(text, pos)
      comment == /\ FortranMatch(syntax.comment, m.line)
                 /\ ~FortranMatch(syntax.nocomment, m.line)
  IN IF ~m.ok THEN sloc
     ELSE fortranLoop(text, m.pos, syntax,
                      IF comment THEN sloc ELSE sloc + 1)

fortranCounter(text, syntax) ==
  [sloc |-> fortranLoop(text, 1, syntax, 0), lloc |-> 0]

(***************************************************************************)
(* The verifiers.  Each reads the file line by line with munchline and     *)
(* says whether the content is of the language of its row.                 *)
(***************************************************************************)
\* hasKeywords: some line that munchline yields holds one of the tells
RECURSIVE hasKeywordsFrom(_, _, _)
hasKeywordsFrom(text, pos, tells) ==
  LET m == munchline(text, pos)
  IN IF ~m.ok THEN FALSE
     ELSE \/ \E i \in DOMAIN tells : Contains(m.line, tells[i])
          \/ hasKeywordsFrom(text, m.pos, tells)

\* a verifier that takes every file with a line
hasLines(text, tells) == munchline(text, 1).ok

hasKeywords(text, tells) == hasKeywordsFrom(text, 1, tells)

occamTells == << << "-", "-" >>, << "P", "R", "O", "C" >> >>

pop11Tells ==
  << << "d", "e", "f", "i", "n", "e" >>, << "p", "r", "i", "n", "t", "f" >> >>

reallyOccam(text) == hasKeywords(text, occamTells)

reallyPOP11(text) == hasKeywords(text, pop11Tells)

reallySather(text) == hasKeywords(text, << << "c", "l", "a", "s", "s" >> >>)

\* the bytes of line after its leading white space (^\s*)
AfterSpace(line) ==
  LET lead == { i \in 1..Len(line) : ~isspace(line[i]) }
  IN IF lead = {} THEN << >>
     ELSE From(line, CHOOSE i \in lead : \A j \in lead : i <= j)

\* ^\s*word\s
StartsWithWord(line, word) ==
  LET rest == AfterSpace(line)
  IN /\ HasPrefix(rest, word)
     /\ Len(rest) > Len(word)
     /\ isspace(rest[Len(word) + 1])

\* tail\s*$ for a tail of one byte, or of c and an optional ";"
EndsWith(line, c, semi) ==
  \E i \in 1..Len(line) :
     /\ line[i] = c
     /\ \/ \A k \in (i + 1)..Len(line) : isspace(line[k])
        \/ /\ semi
           /\ i < Len(line)
           /\ line[i + 1] = ";"
           /\ \A k \in (i + 2)..Len(line) : isspace(line[k])

\* the clues reallyExpect takes from one line: the part before a "#" is
\* what the later patterns see
expectClues(line0) ==
  LET i == Index(line0, << "#" >>)
      line == IF i > 0 THEN Before(line0, i) ELSE line0
      rest == AfterSpace(line)
      loadLib == << "l", "o", "a", "d", "L", "i", "b" >>
      arg == AfterSpace(From(rest, Len(loadLib) + 1))
  IN [foundPound |-> i > 0,
      beginBrace |-> HasPrefix(rest, << "{" >>) \/ EndsWith(line, "{", FALSE),
      endBrace |-> HasPrefix(rest, << "}" >>) \/ EndsWith(line, "}", TRUE),
      loadLib |-> /\ StartsWithWord(line, loadLib)
                  /\ arg # << >>,
      foundProc |-> StartsWithWord(line, << "p", "r", "o", "c" >>),
      foundIf |-> StartsWithWord(line, << "i", "f" >>),
      foundBrackets |->
        \E a, b \in 1..Len(line) : a < b /\ line[a] = "[" /\ line[b] = "]",
      foundExpect |->
        StartsWithWord(line, << "e", "x", "p", "e", "c", "t" >>)]

NoClues ==
  [foundPound |-> FALSE, beginBrace |-> FALSE, endBrace |-> FALSE,
   loadLib |-> FALSE, foundProc |-> FALSE, foundIf |-> FALSE,
   foundBrackets |-> FALSE, foundExpect |-> FALSE]

\* reallyExpect's loop over the lines from pos on
RECURSIVE expectLoop(_, _, _)
expectLoop(text, pos, acc) ==
  LET m == munchline(text, pos)
      c == expectClues(m.line)
  IN IF ~m.ok THEN acc
     ELSE expectLoop(text, m.pos,
                     [k \in DOMAIN acc |-> acc[k] \/ c[k]])

reallyExpect(text) ==
  LET c == expectLoop(text, 1, NoClues)
  IN \/ c.loadLib /\ (c.foundPound \/ (c.beginBrace /\ c.endBrace))
     \/ /\ c.beginBrace /\ c.endBrace
        /\ c.foundProc \/ c.foundIf \/ c.foundBrackets \/ c.foundExpect

(***************************************************************************)
(* The generated-file detector on bytes.                                   *)
(***************************************************************************)
UpperCase ==
  << "A", "B", "C", "D", "E", "F", "G", "H", "I", "J", "K", "L", "M", "N", "O",
     "P", "Q", "R", "S", "T", "U", "V", "W", "X", "Y", "Z" >>

LowerCase ==
  << "a", "b", "c", "d", "e", "f", "g", "h", "i", "j", "k", "l", "m", "n", "o",
     "p", "q", "r", "s", "t", "u", "v", "w", "x", "y", "z" >>

\* the line with its upper-case letters folded, as (?i: ) compares it
Fold(line) ==
  [k \in DOMAIN line |->
     IF \E u \in DOMAIN UpperCase : UpperCase[u] = line[k]
     THEN LowerCase[CHOOSE u \in DOMAIN UpperCase : UpperCase[u] = line[k]]
     ELSE line[k]]

\* the phrases of the variable generated that are plain strings
generatedPhrases ==
  { << "a", "u", "t", "o", "m", "a", "t", "i", "c", "a", "l", "l", "y", " ",
    "g", "e", "n", "e", "r", "a", "t", "e", "d" >>,
    << "g", "e", "n", "e", "r", "a", "t", "e", "d", " ", "a", "u", "t", "o",
    "m", "a", "t", "i", "c", "a", "l", "l", "y" >>,
    << "g", "e", "n", "e", "r", "a", "t", "e", "d", " ", "b", "y" >>,
    << "a", " ", "l", "e", "x", "i", "c", "a", "l", " ", "s", "c", "a", "n",
    "n", "e", "r", " ", "g", "e", "n", "e", "r", "a", "t", "e", "d", " ",
    "b", "y", " ", "f", "l", "e", "x" >>,
    << "t", "h", "i", "s", " ", "i", "s", " ", "a", " ", "g", "e", "n", "e",
    "r", "a", "t", "e", "d", " ", "f", "i", "l", "e" >>,
    << "d", "o", " ", "n", "o", "t", " ", "e", "d", "i", "t" >>,
    << "d", "o", " ", "n", "o", "t", " ", "h", "a", "n", "d", "-", "h", "a",
    "c", "k" >> }

\* (?i:generated) matches in line at a place from i on; one alternative is
\* "generated with the.*utility"
generatedFrom(line, i) ==
  LET rest == Fold(From(line, i))
      with == << "g", "e", "n", "e", "r", "a", "t", "e", "d", " ", "w", "i",
              "t", "h", " ", "t", "h", "e" >>
      j == Index(rest, with)
  IN \/ \E p \in generatedPhrases : Contains(rest, p)
     \/ /\ j > 0
        /\ Contains(From(rest, j + Len(with)),
                    << "u", "t", "i", "l", "i", "t", "y" >>)

\* the regexp leader.*(?i:generated) finds something in the line
MarkerBehind(line, leader) ==
  \E i \in 1..(Len(line) + 1) :
     /\ HasPrefix(From(line, i), leader)
     /\ generatedFrom(line, i + Len(leader))

\* the loop of wasGeneratedAutomatically, with the regexp of one leader:
\* it goes on while munchline yields a line and i > 0
RECURSIVE generatedLoop(_, _, _, _)
generatedLoop(text, pos, i, leader) ==
  LET m == munchline(text, pos)
  IN IF ~(m.ok /\ i > 0) THEN FALSE
     ELSE \/ MarkerBehind(m.line, leader)
          \/ generatedLoop(text, m.pos, i - 1, leader)

\* the comment leaders the detector is called with for a file of this
\* name: the markers of the matching rows of genericLanguages and the "#"
\* of the later tests
LeadersOf(name) ==
  { genericLanguages[i].eolcomment :
      i \in { k \in DOMAIN genericLanguages :
                HasSuffix(name, genericLanguages[k].suffix) } } \cup {"#"}

\* the leaders behind which the detector, looking at the first 15 lines,
\* finds a marker in these bytes: the "*" of its regexp, and the leader it
\* was called with
MarkersOf(name, text) ==
  { l \in LeadersOf(name) \cup {"*"} : generatedLoop(text, 1, 15, Bytes(l)) }

(***************************************************************************)
(* The file system.  A node is kind "dir", "file", "symfile" (a symbolic   *)
(* link to a regular file) or "symdir" (a symbolic link to a directory);   *)
(* ok says that a directory can be read or a file opened; the other fields *)
(* abstract the content of a file (of a link's target): gen is the set of  *)
(* strings that precede a generated-file marker on one of the first 15     *)
(* lines, bang the interpreter token of the #! line of an executable,      *)
(* verified the verdict of a verifier on it, sloc/lloc what a counter      *)
(* returns for it.  A file can be given by its bytes (text), and then      *)
(* sloc/lloc are what the counter that Generic runs on it makes of them.   *)
(***************************************************************************)
\* the text of a node whose content is given by its counts alone
NoText == << "..." >>

Node(kind, ok, gen, verified, sloc, lloc) ==
  [kind |-> kind, ok |-> ok, gen |-> gen, bang |-> "", verified |-> verified,
   sloc |-> sloc, lloc |-> lloc, text |-> NoText]

\* the first row of a table that carries no verifier and whose suffix the
\* name has, 0 if there is none
FirstRow(table, name) ==
  LET rows == { i \in DOMAIN table :
                  /\ HasSuffix(name, table[i].suffix)
                  /\ table[i].verifier = "nil" }
  IN IF rows = {} THEN 0 ELSE CHOOSE i \in rows : \A j \in rows : i <= j

\* the call of a counter that Generic makes for a file of this name and
\* these bytes that has no #! line and that the verifiers reject
CountOf(name, text) ==
  LET g == FirstRow(genericLanguages, name)
      p == FirstRow(pascalLikes, name)
      f == { i \in DOMAIN fortranLikes :
               HasSuffix(name, fortranLikes[i].suffix) }
  IN IF g > 0
     THEN IF genericLanguages[g].cfamily
          THEN cFamilyCounter(text, genericLanguages[g])
          ELSE genericCounter(text, genericLanguages[g].eolcomment,
                              genericLanguages[g].terminator)
     ELSE IF HasSuffix(name, ".py") THEN pythonCounter(text)
     ELSE IF \/ HasSuffix(name, ".pl") \/ HasSuffix(name, ".pm")
             \/ HasSuffix(name, ".ph")
     THEN perlCounter(text)
     ELSE IF \E i \in DOMAIN scriptingLanguages :
                HasSuffix(name, scriptingLanguages[i].suffix)
     THEN genericCounter(text, "#", "")
     ELSE IF p > 0 THEN pascalCounter(text, pascalLikes[p])
     ELSE IF f # {} THEN fortranCounter(text, fortranLikes[CHOOSE i \in f : TRUE])
     ELSE [sloc |-> 0, lloc |-> 0]

\* a readable regular file of the given name and bytes, with no
\* generated-file marker and no #! line, that the verifiers reject
TextNode(name, text) ==
  [Node("file", TRUE, {}, FALSE, CountOf(name, text).sloc,
        CountOf(name, text).lloc) EXCEPT !.text = text]

DirNode == Node("dir", TRUE, {}, FALSE, 0, 0)

SrcNode(sloc, lloc) == Node("file", TRUE, {}, TRUE, sloc, lloc)

\* os.Lstat(path).IsDir()
LstatIsDir(fs, path) == fs[path].kind = "dir"

\* isDirectory: os.Stat follows symbolic links
isDirectory(fs, path) == fs[path].kind \in {"dir", "symdir"}

\* isRegular: os.Stat follows symbolic links
isRegular(fs, path) == fs[path].kind \in {"file", "symfile"}

\* os.Stat(path) succeeds
Exists(fs, path) == path \in DOMAIN fs

\* readDirNames: the sorted names of the entries of a directory
readDirNames(fs, dir) ==
  SelectSeq(NameOrder, LAMBDA n : Append(dir, n) \in DOMAIN fs)

(***************************************************************************)
(* The classifier.                                                         *)
(***************************************************************************)
\* countContext.setup: os.Open succeeded; on failure it logs, returns false
\* and leaves ctx.rc nil
setup(node) == node.ok

\* a read through ctx.rc (munchline, getachar, ReadString) dereferences a nil
\* reader when the setup before it failed; no caller tests setup's result
ReadPanics(node) == ~setup(node)

\* wasGeneratedAutomatically: the regexp (\*|<eolcomment>).*(?i:<generated>)
\* hits one of the first lines; an eolcomment of "*" is dropped from it
wasGeneratedAutomatically(node, eolcomment) ==
  \E leader \in node.gen :
     leader = "*" \/ (eolcomment # "*" /\ leader = eolcomment)

\* hashbang: the #! line of an executable names the interpreter
hashbang(node, langname) == node.bang # "" /\ node.bang = langname

\* cFamilyCounter, genericCounter, pascalCounter: a present verifier that
\* rejects gives 0, 0; otherwise the counts of the content
Counter(node, verifier) ==
  IF verifier # "nil" /\ ~node.verified THEN << 0, 0 >>
  ELSE << node.sloc, node.lloc >>

EmptyStat == [Language |-> "", SLOC |-> 0, LLOC |-> 0, panic |-> FALSE]

PanicStat == [Language |-> "", SLOC |-> 0, LLOC |-> 0, panic |-> TRUE]

Counted(stat, lang, cnt) ==
  [Language |-> lang, SLOC |-> cnt[1], LLOC |-> cnt[2], panic |-> FALSE]

\* Generic, the loop over fortranLikes
RECURSIVE GenericFortran(_, _, _, _)
GenericFortran(name, node, i, stat) ==
  IF i > Len(fortranLikes) THEN stat
  ELSE LET lang == fortranLikes[i] IN
    IF HasSuffix(name, lang.suffix)
    THEN IF ReadPanics(node) THEN PanicStat
         ELSE LET st == [stat EXCEPT !.Language = lang.name,
                                     !.SLOC = node.sloc] IN
              IF st.SLOC > 0 THEN st
              ELSE GenericFortran(name, node, i + 1, st)
    ELSE GenericFortran(name, node, i + 1, stat)

\* Generic, the loop over pascalLikes
RECURSIVE GenericPascal(_, _, _, _)
GenericPascal(name, node, i, stat) ==
  IF i > Len(pascalLikes) THEN GenericFortran(name, node, 1, stat)
  ELSE LET lang == pascalLikes[i] IN
    IF HasSuffix(name, lang.suffix)
    THEN IF ReadPanics(node) THEN PanicStat
         ELSE LET st == Counted(stat, lang.name, Counter(node, lang.verifier))
              IN IF st.SLOC > 0 THEN st
                 ELSE GenericPascal(name, node, i + 1, st)
    ELSE GenericPascal(name, node, i + 1, stat)

\* Generic, the loop over scriptingLanguages: the generated-file detector
\* runs at the top of every iteration, before the row is looked at
RECURSIVE GenericScripting(_, _, _, _)
GenericScripting(name, node, i, stat) ==
  IF i > Len(scriptingLanguages) THEN GenericPascal(name, node, 1, stat)
  ELSE LET lang == scriptingLanguages[i] IN
    IF ReadPanics(node) THEN PanicStat
    ELSE IF wasGeneratedAutomatically(node, "#") THEN stat
    ELSE IF HasSuffix(name, lang.suffix) \/ hashbang(node, lang.hashbang)
    THEN Counted(stat, lang.name, Counter(node, "nil"))
    ELSE GenericScripting(name, node, i + 1, stat)

\* Generic, the special cases between the catalog scan and the scripting
\* table: python, perl, waf
GenericSpecial(name, node, stat) ==
  LET special ==
        IF HasSuffix(name, ".py") \/ hashbang(node, "python") THEN "python"
        ELSE IF \/ HasSuffix(name, ".pl") \/ HasSuffix(name, ".pm")
                \/ HasSuffix(name, ".ph") \/ hashbang(node, "perl")
             THEN "perl"
        ELSE IF name = "wscript" THEN "waf"
        ELSE ""
  IN IF special = "" THEN GenericScripting(name, node, 1, stat)
     ELSE IF ReadPanics(node) THEN PanicStat
     ELSE IF wasGeneratedAutomatically(node, "#") THEN stat
     ELSE Counted(stat, special, Counter(node, "nil"))

\* Generic, the scan of genericLanguages from row i on
RECURSIVE GenericScan(_, _, _, _)
GenericScan(name, node, i, stat) ==
  IF i > Len(genericLanguages) THEN GenericSpecial(name, node, stat)
  ELSE LET lang == genericLanguages[i] IN
    IF HasSuffix(name, lang.suffix)
    THEN IF ReadPanics(node) THEN PanicStat
         ELSE IF wasGeneratedAutomatically(node, lang.eolcomment) THEN stat
         ELSE LET cnt == Counter(node, lang.verifier)
                  st == [stat EXCEPT !.SLOC = cnt[1], !.LLOC = cnt[2]]
              IN IF st.SLOC > 0 THEN [st EXCEPT !.Language = lang.name]
                 ELSE GenericScan(name, node, i + 1, st)
    ELSE GenericScan(name, node, i + 1, stat)

\* Generic(ctx, path)
Generic(fs, path) == GenericScan(Base(path), fs[path], 1, EmptyStat)

(***************************************************************************)
(* The path filter.  Its result: ret is the error it returns ("nil", the   *)
(* err it was handed, or "SkipDir"), passed says that the path reached the *)
(* classifier, stat is the record the classifier made of it.               *)
(***************************************************************************)
\* a filter without the test of neverInterestingByPrefix
NoDotPrefix(path) == FALSE

\* the path as a string begins with "."
HasDotPrefix(path) == path = << >> \/ DotName(path[1])

\* the path as a string contains ".so." or "/."
HasInfix(path) ==
  \/ \E i \in 1..Len(path) : SoName(path[i])
  \/ \E i \in 2..Len(path) : DotName(path[i])

\* path + ".in" names an existing file (the rule for generated Makefiles)
HasMakefileIn(fs, path) ==
  Exists(fs, SubSeq(path, 1, Len(path) - 1) \o << "Makefile.in" >>)

Rejected(err) == [ret |-> err, passed |-> FALSE, stat |-> EmptyStat]

filter(fs, excl, path, err) ==
  IF Ext(Base(path)) # "" /\ Ext(Base(path)) \in neverInterestingBySuffix
  THEN Rejected(err)
  ELSE IF HasDotPrefix(path) THEN Rejected(err)
  ELSE IF HasInfix(path)
  THEN IF isDirectory(fs, path) THEN Rejected("SkipDir") ELSE Rejected(err)
  ELSE IF ToLower(Base(path)) \in neverInterestingByBasename
  THEN Rejected(err)
  ELSE IF path \in excl THEN Rejected(err)
  ELSE IF ~isRegular(fs, path) THEN Rejected(err)
  ELSE IF Base(path) = "Makefile" /\ HasMakefileIn(fs, path)
  THEN Rejected("nil")
  ELSE [ret |-> err, passed |-> TRUE, stat |-> Generic(fs, path)]

(***************************************************************************)
(* The trees walked.  Every tree holds the base tree; a feature adds or    *)
(* replaces a few nodes of it.                                             *)
(***************************************************************************)
BaseTree ==
  ( << >> :> DirNode ) @@
  ( << "a" >> :> DirNode ) @@
  ( << "a", "f.c" >> :> SrcNode(2, 1) ) @@
  ( << "a", "s" >> :> DirNode ) @@
  ( << "a", "s", "g.h" >> :> SrcNode(1, 1) ) @@
  ( << "b" >> :> DirNode ) @@
  ( << "b", "k.c" >> :> SrcNode(1, 0) ) @@
  ( << "z.c" >> :> SrcNode(2, 2) )

Features ==
  { \* symbolic links to a regular file and to a directory
    ( << "ln.c" >> :> Node("symfile", TRUE, {}, TRUE, 2, 1) ) @@
    ( << "a", "lnd" >> :> Node("symdir", TRUE, {}, FALSE, 0, 0) ),
    \* a symbolic link to a directory, named with a leading dot
    ( << "a", ".lnk" >> :> Node("symdir", TRUE, {}, FALSE, 0, 0) ),
    \* a dot directory below the root's level, and one at the root's level
    ( << "a", ".git" >> :> DirNode ) @@
    ( << "a", ".git", "k.c" >> :> SrcNode(1, 1) ) @@
    ( << ".git" >> :> DirNode ) @@
    ( << ".git", "f.c" >> :> SrcNode(1, 1) ),
    \* directories whose names hold ".so." or end like an object file
    ( << "lib.so.1" >> :> DirNode ) @@
    ( << "lib.so.1", "f.c" >> :> SrcNode(1, 1) ) @@
    ( << "b", "v.so.d" >> :> DirNode ) @@
    ( << "b", "v.so.d", "f.c" >> :> SrcNode(1, 1) ) @@
    ( << "x.o" >> :> DirNode ) @@
    ( << "x.o", "k.c" >> :> SrcNode(1, 1) ),
    \* a directory that cannot be read
    ( << "a", "s" >> :> [DirNode EXCEPT !.ok = FALSE] ),
    \* a regular file that cannot be opened
    ( << "b", "k.c" >> :> [SrcNode(1, 0) EXCEPT !.ok = FALSE] ),
    \* a generated file, a file its verifiers reject, a file of no language
    ( << "b", "gen.c" >> :> Node("file", TRUE, {"//"}, TRUE, 2, 2) ) @@
    ( << "b", "t.sa" >> :> Node("file", TRUE, {}, FALSE, 2, 1) ) @@
    ( << "u.zz" >> :> SrcNode(1, 0) ),
    \* files the filter rejects by name, and a generated Makefile
    ( << "README" >> :> SrcNode(1, 0) ) @@
    ( << "a", "x.o" >> :> SrcNode(1, 0) ) @@
    ( << "b", "Makefile" >> :> SrcNode(1, 0) ) @@
    ( << "b", "Makefile.in" >> :> SrcNode(2, 0) ),
    \* an Objective-C candidate the verifier rejects, a Makefile, a script
    ( << "a", "m.m" >> :> Node("file", TRUE, {}, FALSE, 2, 1) ) @@
    ( << "Makefile" >> :> SrcNode(1, 0) ) @@
    ( << "b", "r.sh" >> :> SrcNode(1, 0) ) }

\* the nodes of the features in fset laid over the base tree
Overlay(fset) ==
  LET dom == DOMAIN BaseTree \cup UNION { DOMAIN f : f \in fset }
  IN [p \in dom |->
        IF \E f \in fset : p \in DOMAIN f
        THEN (CHOOSE f \in fset : p \in DOMAIN f)[p]
        ELSE BaseTree[p]]

Trees ==
  { Overlay(fset) : fset \in { x \in SUBSET Features : Cardinality(x) <= MaxFeatures } }

(***************************************************************************)
(* The state of one run of main().                                         *)
(***************************************************************************)
VARIABLES
  fs,           \* the tree below the working directory
  roots,        \* the paths on the command line: << >> is ".", or a file
  exclusions,   \* the paths the -x regexp matches
  individual,   \* -i (or -u: individual = individual || unclassified)
  unclassified, \* -u
  chandepth,    \* depth of the result pipeline
  pcMain,       \* the producer goroutine of main: start, wait, done
  rootIdx,      \* its index into roots
  queue,        \* ws.v, the directories waiting for a worker
  vClosed,      \* how many times ws.v was closed
  active,       \* ws.active, the wait-group counter
  firstError,   \* ws.firstError
  walkErr,      \* what walk returned (main drops it)
  stack,        \* per worker, its nest of visitFile calls, innermost last
  exited,       \* the workers whose range over ws.v ended
  pipeline,     \* the records buffered in the result pipeline
  pipeClosed,   \* how many times the pipeline was closed
  pcCons,       \* the mainline of main: loop, done
  counts,       \* the per-language buckets
  totals,       \* the bucket of all files
  printed,      \* the lines printed in individual mode, in order
  summary,      \* the rows of the report, in order
  exitStatus,   \* the exit status of the process, -1 while it runs
  crashed,      \* a goroutine panicked
  inlined,      \* history: the directories visited by an inline call
  sent,         \* history: per path, how many records were sent for it
  seen          \* history: per path, how often the filter was handed it

vars ==
  << fs, roots, exclusions, individual, unclassified, chandepth, pcMain,
     rootIdx, queue, vClosed, active, firstError, walkErr, stack, exited,
     pipeline, pipeClosed, pcCons, counts, totals, printed, summary,
     exitStatus, crashed, inlined, sent, seen >>

configVars == << fs, roots, exclusions, individual, unclassified, chandepth >>

walkVars ==
  << pcMain, rootIdx, queue, vClosed, active, firstError, walkErr, stack,
     exited, pipeClosed, inlined, sent, seen >>

consVars == << pcCons, counts, totals, printed, summary, exitStatus >>

Workers == 1..Walkers

ZeroRecord(lang) ==
  [language |-> lang, slinecount |-> 0, llinecount |-> 0, filecount |-> 0]

\* counts[lang] of a Go map: the zero record for a missing key
Bucket(cnts, lang) ==
  IF lang \in DOMAIN cnts THEN cnts[lang] ELSE ZeroRecord("")

\* counts[lang] = rec
SetBucket(cnts, lang, rec) ==
  [l \in DOMAIN cnts \cup {lang} |-> IF l = lang THEN rec ELSE cnts[l]]

\* delete(counts, lang)
DeleteBucket(cnts, lang) == [l \in DOMAIN cnts \ {lang} |-> cnts[l]]

NoCounts == [l \in {} |-> ZeroRecord("")]

SourceStat(path, stat) ==
  [Path |-> path, Language |-> stat.Language, SLOC |-> stat.SLOC,
   LLOC |-> stat.LLOC]

(***************************************************************************)
(* The mainline of main(): the consumer of the pipeline.                   *)
(***************************************************************************)
\* the body of the receive loop for one record: the buckets, the totals and
\* the printed lines after it
Deliver(st, cnts, tots, out) ==
  IF individual
  THEN [counts |-> cnts, totals |-> tots,
        printed |->
          IF ~unclassified /\ st.SLOC > 0 THEN Append(out, st)
          ELSE IF unclassified /\ st.SLOC = 0 THEN Append(out, st.Path)
          ELSE out]
  ELSE IF st.SLOC > 0
  THEN LET tmp == Bucket(cnts, st.Language) IN
       [counts |->
          SetBucket(cnts, st.Language,
                    [language |-> st.Language,
                     slinecount |-> tmp.slinecount + st.SLOC,
                     llinecount |-> tmp.llinecount + st.LLOC,
                     filecount |-> tmp.filecount + 1]),
        totals |->
          [tots EXCEPT !.slinecount = @ + st.SLOC,
                       !.llinecount = @ + st.LLOC,
                       !.filecount = @ + 1],
        printed |-> out]
  ELSE [counts |-> cnts, totals |-> tots, printed |-> out]

\* the reassignment of C headers, tried from row i of cHeaderPriority on
RECURSIVE ReassignFrom(_, _)
ReassignFrom(cnts, i) ==
  IF i > Len(cHeaderPriority) THEN cnts
  ELSE IF Bucket(cnts, cHeaderPriority[i]).slinecount > 0
  THEN LET tmp == Bucket(cnts, cHeaderPriority[i]) IN
       DeleteBucket(
         SetBucket(cnts, cHeaderPriority[i],
                   [tmp EXCEPT !.slinecount =
                      @ + Bucket(cnts, "c-header").slinecount]),
         "c-header")
  ELSE ReassignFrom(cnts, i + 1)

\* a reassignment that looks at the first language of cHeaderPriority only
ReassignFirstOnly(cnts) ==
  IF /\ Bucket(cnts, "c-header").slinecount > 0
     /\ Bucket(cnts, cHeaderPriority[1]).slinecount > 0
  THEN LET tmp == Bucket(cnts, cHeaderPriority[1]) IN
       DeleteBucket(
         SetBucket(cnts, cHeaderPriority[1],
                   [tmp EXCEPT !.slinecount =
                      @ + Bucket(cnts, "c-header").slinecount]),
         "c-header")
  ELSE cnts

Reassign(cnts) ==
  IF Bucket(cnts, "c-header").slinecount > 0 THEN ReassignFrom(cnts, 1)
  ELSE cnts

\* the range of a uint, scaled down
UintRange == 256

\* -x of a uint
NegU(x) == (UintRange - (x % UintRange)) % UintRange

\* a comparator on the counts themselves, which sorts ascending
LessAscending(a, b) == a.slinecount < b.slinecount

\* sortable.Less
Less(a, b) == NegU(a.slinecount) < NegU(b.slinecount)

\* the rows put in summary: the totals when more than one file was counted,
\* then every bucket
SummaryRows(cnts, tots) ==
  (IF tots.filecount > 1 THEN {[tots EXCEPT !.language = "all"]} ELSE {})
  \cup { cnts[l] : l \in DOMAIN cnts }

\* the orders sort.Sort may leave the rows in: no row is Less than one
\* before it
Sorted(rows) ==
  { s \in [1..Cardinality(rows) -> rows] :
      /\ \A r \in rows : \E i \in DOMAIN s : s[i] = r
      /\ \A i, j \in DOMAIN s : i < j => ~Less(s[j], s[i]) }

\* one turn of the receive loop on a buffered pipeline
Consume ==
  /\ exitStatus = -1
  /\ pcCons = "loop"
  /\ pipeline # << >>
  /\ LET d == Deliver(Head(pipeline), counts, totals, printed) IN
       /\ counts' = d.counts
       /\ totals' = d.totals
       /\ printed' = d.printed
  /\ pipeline' = Tail(pipeline)
  /\ UNCHANGED << configVars, walkVars, pcCons, summary, exitStatus, crashed >>

\* the receive that finds the pipeline closed and drained, and what follows
\* the loop: nothing more in individual mode; otherwise the reassignment of
\* the C headers, the summary, its sort and the report.  main returns.
Finish ==
  /\ exitStatus = -1
  /\ pcCons = "loop"
  /\ pipeline = << >>
  /\ pipeClosed > 0
  /\ pcCons' = "done"
  /\ exitStatus' = 0
  /\ IF individual
     THEN UNCHANGED << counts, summary >>
     ELSE /\ counts' = Reassign(counts)
          /\ summary' \in Sorted(SummaryRows(counts', totals))
  /\ UNCHANGED << configVars, walkVars, pipeline, totals, printed, crashed >>

(***************************************************************************)
(* The walker.                                                             *)
(***************************************************************************)
Frame(path, stage, todo) == [path |-> path, stage |-> stage, todo |-> todo]

Front(stk) == SubSeq(stk, 1, Len(stk) - 1)

Top(stk) == stk[Len(stk)]

\* the returns of the visitFile calls whose loop over names has ended
RECURSIVE Unwind(_)
Unwind(stk) ==
  IF stk # << >> /\ Top(stk).stage = "loop" /\ Top(stk).todo = << >>
  THEN Unwind(Front(stk))
  ELSE stk

\* ws.terminated()
terminated == firstError # "nil"

\* ws.setTerminated(err): the first error is kept
setTerminated(err) == IF firstError = "nil" THEN err ELSE firstError

\* the send at the end of filter can complete: a buffered pipeline has room,
\* an unbuffered one has the mainline at its receive
CanSend == IF chandepth = 0 THEN pcCons = "loop" ELSE Len(pipeline) < chandepth

\* one call ws.walkFn(path, info, err) whose result is r: the classifier's
\* panic, or the send of the record (on an unbuffered pipeline the mainline
\* receives it in the same step and runs the loop body on it)
WalkFn(path, r) ==
  /\ seen' = [seen EXCEPT ![path] = @ + 1]
  /\ IF r.passed /\ r.stat.panic
     THEN /\ crashed' = TRUE
          /\ exitStatus' = 2
          /\ UNCHANGED << pipeline, counts, totals, printed, sent >>
     ELSE IF r.passed
     THEN /\ CanSend
          /\ sent' = [sent EXCEPT ![path] = @ + 1]
          /\ UNCHANGED << crashed, exitStatus >>
          /\ IF chandepth = 0
             THEN LET d == Deliver(SourceStat(path, r.stat), counts, totals,
                                   printed) IN
                    /\ counts' = d.counts
                    /\ totals' = d.totals
                    /\ printed' = d.printed
                    /\ UNCHANGED pipeline
             ELSE /\ pipeline' = Append(pipeline, SourceStat(path, r.stat))
                  /\ UNCHANGED << counts, totals, printed >>
     ELSE UNCHANGED << pipeline, counts, totals, printed, sent, crashed,
                       exitStatus >>

\* a visitChannel that forgets ws.active.Add(-1) after visitFile
ResumeWithoutDone(w, stk, delta) ==
  /\ stack' = [stack EXCEPT ![w] = stk]
  /\ active' = active + delta

\* a visitFile that sends a directory to ws.v without ws.active.Add(1)
ResumeWithoutAdd(w, stk, delta) ==
  /\ stack' = [stack EXCEPT ![w] = stk]
  /\ active' = active - (IF stk = << >> THEN 1 ELSE 0)

\* the worker's stack becomes stk and the wait-group counter moves by delta;
\* the return of the outermost visitFile is followed by ws.active.Add(-1)
Resume(w, stk, delta) ==
  /\ stack' = [stack EXCEPT ![w] = stk]
  /\ active' = active + delta - (IF stk = << >> THEN 1 ELSE 0)

\* main's goroutine at a root that is a directory: os.Stat, os.Chdir, and
\* walk up to its Wait: a new walkState, the root queued and counted by the
\* wait-group, the workers started
MainWalk ==
  /\ exitStatus = -1
  /\ pcMain = "start"
  /\ rootIdx <= Len(roots)
  /\ Exists(fs, roots[rootIdx])
  /\ isDirectory(fs, roots[rootIdx])
  /\ pcMain' = "wait"
  /\ queue' = << roots[rootIdx] >>
  /\ active' = 1
  /\ vClosed' = 0
  /\ firstError' = "nil"
  /\ stack' = [w \in Workers |-> << >>]
  /\ exited' = {}
  /\ UNCHANGED << configVars, rootIdx, walkErr, pipeline, pipeClosed,
                  consVars, crashed, inlined, sent, seen >>

\* main's goroutine at a root that is no directory: filter(roots[i], fi, nil)
MainFile ==
  /\ exitStatus = -1
  /\ pcMain = "start"
  /\ rootIdx <= Len(roots)
  /\ Exists(fs, roots[rootIdx])
  /\ ~isDirectory(fs, roots[rootIdx])
  /\ WalkFn(roots[rootIdx], filter(fs, exclusions, roots[rootIdx], "nil"))
  /\ rootIdx' = IF crashed' THEN rootIdx ELSE rootIdx + 1
  /\ UNCHANGED << configVars, pcMain, queue, vClosed, active, firstError,
                  walkErr, stack, exited, pipeClosed, pcCons, summary,
                  inlined >>

\* visitChannel: a worker receives a directory from ws.v
WorkerRecv(w) ==
  /\ exitStatus = -1
  /\ pcMain = "wait" \/ vClosed > 0
  /\ w \notin exited
  /\ stack[w] = << >>
  /\ queue # << >>
  /\ stack' = [stack EXCEPT ![w] = << Frame(Head(queue), "enter", << >>) >>]
  /\ queue' = Tail(queue)
  /\ UNCHANGED << configVars, pcMain, vClosed, active, firstError, walkErr,
                  rootIdx, exited, pipeline, pipeClosed, consVars, crashed,
                  inlined, sent, seen >>

\* visitChannel: the range over ws.v ends when it is closed and empty
WorkerExit(w) ==
  /\ exitStatus = -1
  /\ pcMain = "wait" \/ vClosed > 0
  /\ w \notin exited
  /\ stack[w] = << >>
  /\ queue = << >>
  /\ vClosed > 0
  /\ exited' = exited \cup {w}
  /\ UNCHANGED << configVars, pcMain, rootIdx, queue, vClosed, active,
                  firstError, walkErr, stack, pipeline, pipeClosed, consVars,
                  crashed, inlined, sent, seen >>

\* visitFile up to its loop: the terminated test, the filter on the path
\* itself, the IsDir test, readDirNames and the filter on its failure
VisitEnter(w) ==
  /\ exitStatus = -1
  /\ stack[w] # << >>
  /\ Top(stack[w]).stage = "enter"
  /\ LET path == Top(stack[w]).path
         rest == Front(stack[w])
         r == filter(fs, exclusions, path, "nil")
         r2 == filter(fs, exclusions, path, "EIO")
     IN
     IF terminated
     THEN /\ Resume(w, Unwind(rest), 0)
          /\ UNCHANGED << firstError, pipeline, consVars, crashed, sent, seen >>
     ELSE IF r.ret # "nil" \/ r.passed
     THEN /\ WalkFn(path, r)
          /\ firstError' =
               IF r.ret = "nil" \/ (LstatIsDir(fs, path) /\ r.ret = "SkipDir")
               THEN firstError ELSE setTerminated(r.ret)
          /\ IF crashed' THEN UNCHANGED << stack, active >>
             ELSE Resume(w, Unwind(rest), 0)
          /\ UNCHANGED << pcCons, summary >>
     ELSE IF ~LstatIsDir(fs, path)
     THEN /\ WalkFn(path, r)
          /\ Resume(w, Unwind(rest), 0)
          /\ UNCHANGED << firstError, pcCons, summary >>
     ELSE IF ~fs[path].ok
     THEN /\ seen' = [seen EXCEPT ![path] = @ + 2]
          /\ firstError' =
               IF r2.ret = "nil" THEN firstError ELSE setTerminated(r2.ret)
          /\ Resume(w, Unwind(rest), 0)
          /\ UNCHANGED << pipeline, consVars, crashed, sent >>
     ELSE /\ WalkFn(path, r)
          /\ Resume(w, Unwind(Append(rest,
                      Frame(path, "loop", readDirNames(fs, path)))), 0)
          /\ UNCHANGED << firstError, pcCons, summary >>
  /\ UNCHANGED << configVars, pcMain, rootIdx, queue, vClosed, walkErr,
                  exited, pipeClosed, inlined >>

\* one turn of visitFile's loop over the names of a directory: os.Lstat,
\* then for a directory the non-blocking send on ws.v or the inline call,
\* for anything else the filter
VisitEntry(w) ==
  /\ exitStatus = -1
  /\ stack[w] # << >>
  /\ Top(stack[w]).stage = "loop"
  /\ Top(stack[w]).todo # << >>
  /\ LET top == Top(stack[w])
         rest == Front(stack[w])
         path == Append(top.path, Head(top.todo))
         next == Append(rest, [top EXCEPT !.todo = Tail(@)])
         r == filter(fs, exclusions, path, "nil")
     IN
     IF LstatIsDir(fs, path)
     THEN /\ IF Len(queue) < QueueCap
             THEN /\ queue' = Append(queue, path)
                  /\ Resume(w, Unwind(next), 1)
                  /\ UNCHANGED inlined
             ELSE /\ UNCHANGED queue
                  /\ Resume(w, Append(next, Frame(path, "enter", << >>)), 0)
                  /\ inlined' = inlined \cup {path}
          /\ UNCHANGED << firstError, pipeline, consVars, crashed, sent, seen >>
     ELSE /\ WalkFn(path, r)
          /\ UNCHANGED << queue, pcCons, summary, inlined >>
          /\ IF crashed' THEN UNCHANGED << stack, active, firstError >>
             ELSE IF r.ret # "nil"
             THEN /\ firstError' = setTerminated(r.ret)
                  /\ Resume(w, Unwind(rest), 0)
             ELSE /\ UNCHANGED firstError
                  /\ Resume(w, Unwind(next), 0)
  /\ UNCHANGED << configVars, pcMain, rootIdx, vClosed, walkErr, exited,
                  pipeClosed >>

\* walk: ws.active.Wait() returns, walk returns ws.firstError and its
\* deferred close(ws.v) runs; main drops the result, os.Chdir(here), and
\* goes to the next root
WalkReturn ==
  /\ exitStatus = -1
  /\ pcMain = "wait"
  /\ active = 0
  /\ pcMain' = "start"
  /\ rootIdx' = rootIdx + 1
  /\ walkErr' = firstError
  /\ vClosed' = vClosed + 1
  /\ UNCHANGED << configVars, queue, active, firstError, stack, exited,
                  pipeline, pipeClosed, consVars, crashed, inlined, sent,
                  seen >>

\* main's goroutine after its loop over roots (left also by the break at a
\* root os.Stat fails on): close(pipeline)
ClosePipeline ==
  /\ exitStatus = -1
  /\ pcMain = "start"
  /\ IF rootIdx > Len(roots) THEN TRUE ELSE ~Exists(fs, roots[rootIdx])
  /\ pcMain' = "done"
  /\ pipeClosed' = pipeClosed + 1
  /\ UNCHANGED << configVars, rootIdx, queue, vClosed, active, firstError,
                  walkErr, stack, exited, pipeline, consVars, crashed,
                  inlined, sent, seen >>

(***************************************************************************)
(* The specification of a run.                                             *)
(***************************************************************************)
\* main before its goroutine starts: nothing walked, queued, sent or counted
Started ==
  /\ pcMain = "start"
  /\ rootIdx = 1
  /\ queue = << >>
  /\ vClosed = 0
  /\ active = 0
  /\ firstError = "nil"
  /\ walkErr = "nil"
  /\ stack = [w \in Workers |-> << >>]
  /\ exited = {}
  /\ pipeline = << >>
  /\ pipeClosed = 0
  /\ pcCons = "loop"
  /\ counts = NoCounts
  /\ totals = ZeroRecord("")
  /\ printed = << >>
  /\ summary = << >>
  /\ exitStatus = -1
  /\ crashed = FALSE
  /\ inlined = {}
  /\ sent = [p \in DOMAIN fs |-> 0]
  /\ seen = [p \in DOMAIN fs |-> 0]

Init ==
  /\ \/ fs \in Trees /\ exclusions = {} /\ roots = << << >> >>
     \/ fs = BaseTree /\ exclusions = {<< "z.c" >>} /\ roots = << << >> >>
     \/ fs = BaseTree /\ exclusions = {} /\ roots = << << "z.c" >>, << >> >>
  /\ individual \in BOOLEAN
  /\ unclassified \in BOOLEAN
  /\ unclassified => individual
  /\ chandepth \in (IF individual THEN {0} ELSE 1..MaxCPU)
  /\ Started

Next ==
  \/ MainWalk
  \/ MainFile
  \/ \E w \in Workers : WorkerRecv(w)
  \/ \E w \in Workers : VisitEnter(w)
  \/ \E w \in Workers : VisitEntry(w)
  \/ \E w \in Workers : WorkerExit(w)
  \/ WalkReturn
  \/ ClosePipeline
  \/ Consume
  \/ Finish

Spec == Init /\ [][Next]_vars

(***************************************************************************)
(* Runs without I/O errors under a fair scheduler: the base tree and the   *)
(* base tree under each feature that changes what is walked (symbolic      *)
(* links, a dot-named link on which the walk latches SkipDir, dot          *)
(* directories the filter prunes), in every mode.                          *)
(***************************************************************************)
TermTrees ==
  {BaseTree} \cup
  { Overlay({f}) :
      f \in { g \in Features :
                \E p \in DOMAIN g :
                   \/ g[p].kind \in {"symfile", "symdir"}
                   \/ g[p].kind = "dir" /\ DotName(Base(p)) } }

TermInit ==
  /\ \/ fs \in TermTrees /\ roots = << << >> >>
     \/ fs = BaseTree /\ roots = << << "z.c" >>, << >> >>
  /\ exclusions = {}
  /\ individual \in BOOLEAN
  /\ unclassified \in BOOLEAN
  /\ unclassified => individual
  /\ chandepth \in (IF individual THEN {0} ELSE 1..MaxCPU)
  /\ Started

\* the scheduler runs some goroutine as long as one can take a step (no
\* fairness between goroutines is assumed)
TermSpec == TermInit /\ [][Next]_vars /\ WF_vars(Next)

(***************************************************************************)
(* Runs on regular files named on the command line (loccount f.c g.h ...): *)
(* main filters each root itself, so the aggregator is fed any stream of   *)
(* per-file records.                                                       *)
(***************************************************************************)
AggNames == {"f.c", "g.h", "m.m", "w.cpp"}

\* the contents of a file named n: its SLOC, an LLOC of none or of one per
\* line, and for the .m file what the Objective-C verifier says
AggNodes(n) ==
  { Node("file", TRUE, {}, v, sl, IF stmts THEN sl ELSE 0) :
      v \in (IF n = "m.m" THEN BOOLEAN ELSE {TRUE}),
      sl \in 0..MaxCount, stmts \in BOOLEAN }

\* the sequences without repetition over the set S
Orders(S) ==
  { q \in [1..Cardinality(S) -> S] : \A i, j \in DOMAIN q : i # j => q[i] # q[j] }

AggInit ==
  /\ \E S \in SUBSET AggNames :
       /\ Cardinality(S) <= MaxRecords
       /\ roots \in { [i \in DOMAIN q |-> << q[i] >>] : q \in Orders(S) }
       /\ fs \in { ( << >> :> DirNode ) @@ [p \in { << n >> : n \in S } |-> c[p[1]]] :
                   c \in { d \in [S -> UNION { AggNodes(n) : n \in S }] :
                             \A n \in S : d[n] \in AggNodes(n) } }
  /\ exclusions = {}
  /\ individual = FALSE
  /\ unclassified = FALSE
  /\ chandepth \in 1..MaxCPU
  /\ Started

AggNext ==
  \/ MainFile
  \/ ClosePipeline
  \/ Consume
  \/ Finish

AggSpec == AggInit /\ [][AggNext]_vars

(***************************************************************************)
(* Aggregate runs with -x: the base tree, the tree with files the filter   *)
(* rejects by name and the tree with a dot-named link to a directory, each *)
(* without an exclusion and with the exclusion of one of its regular       *)
(* files; and the run on the one file z.c.                                 *)
(***************************************************************************)
ExclTrees ==
  {BaseTree} \cup
  { Overlay({f}) :
      f \in { g \in Features :
                << "README" >> \in DOMAIN g \/ << "a", ".lnk" >> \in DOMAIN g } }

ExclInit ==
  /\ \/ /\ fs \in ExclTrees
        /\ roots = << << >> >>
        /\ exclusions \in
             {{}} \cup { {p} : p \in { q \in DOMAIN fs : fs[q].kind = "file" } }
     \/ /\ fs = BaseTree
        /\ roots = << << "z.c" >> >>
        /\ exclusions \in { {}, {<< "z.c" >>} }
  /\ individual = FALSE
  /\ unclassified = FALSE
  /\ chandepth \in 1..MaxCPU
  /\ Started

ExclSpec == ExclInit /\ [][Next]_vars

(***************************************************************************)
(* Runs on one regular file given by its bytes (loccount FILE): the file   *)
(* is a text of at most MaxTokens pieces of the language its name selects, *)
(* and main filters it, which runs the language's counter on its bytes.    *)
(***************************************************************************)
\* the lexical pieces of the texts of a file of the given name
Pieces(name) ==
  CASE name = "f.c" ->
         { << "x" >>, << ";" >>, << " " >>, << "\n" >>, << "\"" >>, << "'" >>,
           << "\\" >>, << "#" >>, << "%" >>, << "/", "*" >>, << "*", "/" >>,
           << "/", "/" >> }
    [] name = "q.s" ->
         { << "x" >>, << ";" >>, << " " >>, << "\n" >>, << "\"" >>, << "#" >>,
           << "/", "*" >>, << "*", "/" >> }
    [] name = "d.adb" ->
         { << "x" >>, << ";" >>, << " " >>, << "\n" >>, << "-", "-" >> }
    [] name = "p.py" ->
         { << "x" >>, << " " >>, << "\n" >>, << "#" >>, << "\\" >>, << "\"" >>,
           << "\"", "\"", "\"" >>, << "'", "'", "'" >> }
    [] name = "q.pl" ->
         { << "x" >>, << ";" >>, << " " >>, << "\n" >>, << "#" >>,
           << "<", "<" >>, << "=", "c", "u", "t" >>, << "=", "p" >>,
           << "_", "_", "E", "N", "D", "_", "_" >> }
    [] name = "e.pas" ->
         { << "x" >>, << ";" >>, << " " >>, << "\n" >>, << "{" >>, << "}" >>,
           << "(", "*" >>, << "*", ")" >> }
    [] name = "h.f" ->
         { << "x" >>, << " " >>, << "\n" >>, << "!" >>, << "c" >>, << "C" >>,
           << "*" >> }
    [] OTHER ->
         { << "x" >>, << " " >>, << "\n" >>, << "!" >>, << "c" >> }

TextNames == {"f.c", "q.s", "d.adb", "p.py", "q.pl", "e.pas", "h.f90", "h.f"}

\* the bytes of a sequence of pieces
RECURSIVE Flatten(_)
Flatten(toks) ==
  IF toks = << >> THEN << >> ELSE Head(toks) \o Flatten(Tail(toks))

\* the texts of at most MaxTokens pieces of a file of the given name
Texts(name) ==
  UNION { { Flatten(toks) : toks \in [1..n -> Pieces(name)] } :
            n \in 0..MaxTokens }

\* a triple-quoted string that begins a line, after the blanks of lead, with
\* the triple quote q and closes with it at the end of the next line; b1 and
\* b2 are what the two lines hold of it
Docstring(lead, q, b1, b2) ==
  lead \o q \o b1 \o << "\n" >> \o b2 \o q \o << "\n" >>

OtherTriple(q) == IF q = dtBytes THEN stBytes ELSE dtBytes

DocLeads == { << >>, << " " >> }

DocFirst == { << >>, << "x" >>, << "#" >> }

DocLast(q) == { << >>, << "x" >>, << "#" >>, OtherTriple(q) }

\* what follows the string: nothing, or a line of code
DocRests == { << >>, << "x", "\n" >> }

Docstrings ==
  UNION { { Docstring(lead, q, b1, b2) \o rest :
              lead \in DocLeads, b1 \in DocFirst, b2 \in DocLast(q),
              rest \in DocRests } :
          q \in {dtBytes, stBytes} }

\* a triple-quoted string that opens and closes on one line, with bytes
\* before and after it on the line
OneLiner(lead, q, content, tail) ==
  lead \o q \o content \o q \o tail \o << "\n" >>

OneLeads == { << >>, << "x", "=" >> }

OneContents == { << >>, << "a" >>, << "a", "b" >>, << "a", " ", "b" >> }

OneTails == { << >>, << "+", "y" >> }

OneLiners ==
  { OneLiner(lead, q, content, tail) \o rest :
      lead \in OneLeads, q \in {dtBytes, stBytes}, content \in OneContents,
      tail \in OneTails, rest \in DocRests }

\* the file """doc\nstring"""\nx=1\n
DocstringFile ==
  dtBytes \o << "d", "o", "c", "\n", "s", "t", "r", "i", "n", "g" >> \o dtBytes
    \o << "\n", "x", "=", "1", "\n" >>

\* the file x="""a\nb"""\n
TripleStringFile ==
  << "x", "=" >> \o dtBytes \o << "a", "\n", "b" >> \o dtBytes \o << "\n" >>

\* a POD block: the line =p, a line holding b, the line =cut
PodBlock(b) ==
  << "=", "p", "\n" >> \o b \o << "\n", "=", "c", "u", "t", "\n" >>

PodBodies ==
  { << >>, << "x" >>, << "x", ";" >>, << "#" >>, << "=", "p" >>,
    << "x", "<", "<", "y" >> }

\* what precedes and what follows a POD block: nothing, or a line of code
PodRests == { << >>, << "x", ";", "\n" >> }

PodFiles ==
  { before \o PodBlock(b) \o after :
      before \in PodRests, b \in PodBodies, after \in PodRests }

\* a here-document: the line x<<y; that opens it, one line of content, and
\* what follows the content
HereBodies ==
  { << "a" >>, << "a", ";" >>, << "=", "p" >>, << "=", "c", "u", "t" >>,
    << "#", "a" >>, << "_", "_", "E", "N", "D", "_", "_" >> }

\* the content's line ends the file without or with its newline, or the
\* line y closes the here-document
HereTails == { << >>, << "\n" >>, << "\n", "y", "\n" >> }

HereFiles ==
  { before \o << "x", "<", "<", "y", ";", "\n" >> \o b \o tail \o after :
      before \in { << >>, << "=", "p", "\n" >> }, b \in HereBodies,
      tail \in HereTails, after \in PodRests }

\* the file print 1;\n=pod\ndoc\n=cut\nprint 2;\n
PodFile ==
  << "p", "r", "i", "n", "t", " ", "1", ";", "\n", "=", "p", "o", "d", "\n",
     "d", "o", "c", "\n", "=", "c", "u", "t", "\n", "p", "r", "i", "n", "t",
     " ", "2", ";", "\n" >>

\* the file C comment line\n      print *,1\n
F77File ==
  << "C", " ", "c", "o", "m", "m", "e", "n", "t", " ", "l", "i", "n", "e",
     "\n", " ", " ", " ", " ", " ", " ", "p", "r", "i", "n", "t", " ", "*",
     ",", "1", "\n" >>

\* the files of a name that are given in full
Examples(name) ==
  CASE name = "p.py" -> Docstrings \cup OneLiners
                          \cup {DocstringFile, TripleStringFile}
    [] name = "q.pl" -> PodFiles \cup HereFiles \cup {PodFile}
    [] name = "h.f" -> {F77File}
    [] OTHER -> {}

CountInit ==
  /\ \E name \in TextNames :
       /\ roots = << << name >> >>
       /\ \E text \in Texts(name) \cup Examples(name) :
            fs = ( << >> :> DirNode ) @@ ( << name >> :> TextNode(name, text) )
  /\ exclusions = {}
  /\ individual = FALSE
  /\ unclassified = FALSE
  /\ chandepth = 1
  /\ Started

CountSpec == CountInit /\ [][AggNext]_vars

(***************************************************************************)
(* Runs on one regular file of any content (loccount FILE): the name is    *)
(* one that several rows of the catalog match, or a row with a verifier;   *)
(* the content is a generated-file marker behind some comment leader or    *)
(* none, the verdict of the verifiers and the count of the counters.       *)
(***************************************************************************)
ScanNames ==
  {"f.c", "m.m", "t.sa", "x.php", "Imakefile", "Makefile", "n.ml", "h.f",
   "q.pl", "u.zz", "i.exp", "j.p"}

\* the comment leaders a generated-file marker is found behind
ScanMarkers == { {}, {"//"}, {";"}, {"#"}, {"--"}, {"*"} }

ScanNodes ==
  { Node("file", TRUE, gen, v, sl, sl) :
      gen \in ScanMarkers, v \in BOOLEAN, sl \in 0..1 }

ScanInit ==
  /\ \E name \in ScanNames :
       /\ roots = << << name >> >>
       /\ \E node \in ScanNodes :
            fs = ( << >> :> DirNode ) @@ ( << name >> :> node )
  /\ exclusions = {}
  /\ individual \in BOOLEAN
  /\ unclassified \in BOOLEAN
  /\ unclassified => individual
  /\ chandepth \in (IF individual THEN {0} ELSE 1..MaxCPU)
  /\ Started

ScanSpec == ScanInit /\ [][AggNext]_vars

(***************************************************************************)
(* Runs on one regular file whose suffix has a verifier (loccount FILE):   *)
(* the file is a text of at most MaxTokens pieces, the verdict of the      *)
(* verifier is what the verifier makes of these bytes, and the counts are  *)
(* those of the counter that Generic runs after this verdict.              *)
(***************************************************************************)
\* the pieces of the texts: the tells of the verifier among other bytes
\* for .f and .p, whole lines with the clues of reallyExpect for .exp.  No
\* text holds end., which every alternative of reallyPascal asks for, nor
\* the comment marker of the occam or the pop11 row.
VerifyPieces(name) ==
  CASE name = "h.f" ->
         { << "-", "-" >>, << "P", "R", "O", "C" >>, << "x" >>, << " " >>,
           << "\n" >> }
    [] name = "j.p" ->
         { << "d", "e", "f", "i", "n", "e" >>,
           << "p", "r", "i", "n", "t", "f" >>, << "x" >>, << " " >>,
           << "\n" >> }
    [] OTHER ->
         { << "x", "\n" >>, << "{", "\n" >>, << "}", "\n" >>,
           << "#", "x", "\n" >>, << "[", "x", "]", "\n" >>,
           << "p", "r", "o", "c", " ", "x", "\n" >>,
           << "i", "f", " ", "x", "\n" >>,
           << "e", "x", "p", "e", "c", "t", " ", "x", "\n" >>,
           << "l", "o", "a", "d", "L", "i", "b", " ", "x", "\n" >>,
           << "l", "o", "a", "d", "_", "l", "i", "b", " ", "x", "\n" >>,
           << "}" >> }

VerifyNames == {"h.f", "j.p", "i.exp"}

VerifyTexts(name) ==
  UNION { { Flatten(toks) : toks \in [1..n -> VerifyPieces(name)] } :
            n \in 0..MaxTokens }

\* what the verifier of the row of this suffix returns on these bytes
Verdict(name, text) ==
  CASE name = "h.f" -> reallyOccam(text)
    [] name = "j.p" -> reallyPOP11(text)
    [] name = "i.exp" -> reallyExpect(text)
    [] OTHER -> FALSE

\* a readable regular file of the given name and bytes with no marker of
\* generation and no #! line: an accepting verifier of genericLanguages
\* hands the bytes to genericCounter with the marker and terminator of its
\* row, otherwise the counter is the one of CountOf
VerifiedNode(name, text) ==
  LET ok == Verdict(name, text)
      rows == { i \in DOMAIN genericLanguages :
                  /\ HasSuffix(name, genericLanguages[i].suffix)
                  /\ genericLanguages[i].verifier # "nil" }
      row == genericLanguages[CHOOSE i \in rows : TRUE]
      cnt == IF ok /\ rows # {}
             THEN genericCounter(text, row.eolcomment, row.terminator)
             ELSE CountOf(name, text)
  IN [Node("file", TRUE, {}, ok, cnt.sloc, cnt.lloc) EXCEPT !.text = text]

VerifyInit ==
  /\ \E name \in VerifyNames :
       /\ roots = << << name >> >>
       /\ \E text \in VerifyTexts(name) :
            fs = ( << >> :> DirNode )
                   @@ ( << name >> :> VerifiedNode(name, text) )
  /\ exclusions = {}
  /\ individual = FALSE
  /\ unclassified = FALSE
  /\ chandepth = 1
  /\ Started

VerifySpec == VerifyInit /\ [][AggNext]_vars

(***************************************************************************)
(* Runs on one regular file of up to MaxLines lines (loccount FILE): code  *)
(* lines, among them at most one line that speaks of generation, with or   *)
(* without a newline at the end of the file.  The markers of the node are  *)
(* what the detector finds in these bytes.                                 *)
(***************************************************************************)
GenNames == {"f.c", "r.sh"}

\* a line of code of the language of the name
CodeLine(name) ==
  IF name = "f.c" THEN << "x", ";", "\n" >> ELSE << "x", "\n" >>

\* lines that speak of generation: behind the end-of-line comment marker of
\* C, inside a block comment and in capitals, behind a "#", behind nothing
GenLines ==
  { << "/", "/", " ", "d", "o", " ", "n", "o", "t", " ", "e", "d", "i", "t",
    "\n" >>,
    << "/", "*", " ", "G", "e", "n", "e", "r", "a", "t", "e", "d", " ", "b",
    "y", " ", "x", " ", "*", "/", "\n" >>,
    << "#", " ", "d", "o", " ", "n", "o", "t", " ", "e", "d", "i", "t", "\n"
    >>,
    << "d", "o", " ", "n", "o", "t", " ", "e", "d", "i", "t", "\n" >> }

\* n lines, the k-th of them the line marked (none for k = 0), the last
\* of them with its newline or without
GenText(name, n, k, marked, newline) ==
  LET all == Flatten([i \in 1..n |-> IF i = k THEN marked ELSE CodeLine(name)])
  IN IF newline THEN all ELSE SubSeq(all, 1, Len(all) - 1)

GenTexts(name) ==
  { GenText(name, n, k, marked, newline) :
      n \in 1..MaxLines, k \in 0..MaxLines, marked \in GenLines,
      newline \in BOOLEAN }

\* a readable regular file of the given name and bytes
GenNode(name, text) ==
  [TextNode(name, text) EXCEPT !.gen = MarkersOf(name, text)]

GenInit ==
  /\ \E name \in GenNames :
       /\ roots = << << name >> >>
       /\ \E text \in GenTexts(name) :
            fs = ( << >> :> DirNode ) @@ ( << name >> :> GenNode(name, text) )
  /\ exclusions = {}
  /\ individual = FALSE
  /\ unclassified = FALSE
  /\ chandepth = 1
  /\ Started

GenSpec == GenInit /\ [][AggNext]_vars

(***************************************************************************)
(* Runs on one Go or Lua file given by its bytes (loccount FILE): the      *)
(* pieces are the tokens of the row of the language.                       *)
(***************************************************************************)
LexPieces(name) ==
  IF name = "g.go"
  THEN { << "x" >>, << " " >>, << "\n" >>, << Backtick >>, << "\"" >>,
         << "/", "/" >>, << "/", "*" >>, << "*", "/" >> }
  ELSE { << "x" >>, << " " >>, << "\n" >>, << "-", "-" >>, << "[", "[" >>,
         << "]", "]" >>, << "\"" >> }

LexNames == {"g.go", "l.lua"}

LexTexts(name) ==
  UNION { { Flatten(toks) : toks \in [1..n -> LexPieces(name)] } :
            n \in 0..MaxTokens }

LexInit ==
  /\ \E name \in LexNames :
       /\ roots = << << name >> >>
       /\ \E text \in LexTexts(name) :
            fs = ( << >> :> DirNode ) @@ ( << name >> :> TextNode(name, text) )
  /\ exclusions = {}
  /\ individual = FALSE
  /\ unclassified = FALSE
  /\ chandepth = 1
  /\ Started

LexSpec == LexInit /\ [][AggNext]_vars

(***************************************************************************)
(* Notions the properties below are stated in.                             *)
(***************************************************************************)
\* no directory fails to be read and no file fails to open
NoIOErrors == \A p \in DOMAIN fs : fs[p].ok

\* loccount was run on the one directory "."
SingleDirRoot == roots = << << >> >>

\* the record the classifier makes of a path the filter passes
StatOf(p) == filter(fs, exclusions, p, "nil").stat

\* a regular file that the path filter hands to the classifier
Interesting(p) == p # << >> /\ isRegular(fs, p) /\ filter(fs, exclusions, p, "nil").passed

RECURSIVE SumOver(_, _)
SumOver(S, f) ==
  IF S = {} THEN 0
  ELSE LET x == CHOOSE y \in S : TRUE IN f[x] + SumOver(S \ {x}, f)

\* the sum of a field over the records sent for files with SLOC > 0
FileSum(field) ==
  SumOver(DOMAIN fs,
          [p \in DOMAIN fs |->
             IF StatOf(p).SLOC > 0 THEN sent[p] * StatOf(p)[field] ELSE 0])

\* the sum of a field over the per-language rows of the report
RowSum(field) == SumOver(DOMAIN counts, [l \in DOMAIN counts |-> counts[l][field]])

\* the languages of the rows of the report
RowLanguages == { summary[i].language : i \in DOMAIN summary }

\* main has returned after an aggregate report
Reported == pcCons = "done" /\ ~individual

(***************************************************************************)
(* C1.  Walker completeness: after the walk of a single root directory     *)
(* with no I/O errors, every regular file under the root that the path     *)
(* filter does not reject has produced exactly one SourceStat, and no      *)
(* other path has produced one, whatever the interleaving of the workers   *)
(* and whether directories were queued or visited inline.                  *)
(* ("Regular" is read as the filter reads it, through os.Stat.)            *)
(***************************************************************************)
C1_WalkerCompleteness ==
  (SingleDirRoot /\ NoIOErrors /\ pcMain = "done") =>
    \A p \in DOMAIN fs : sent[p] = (IF Interesting(p) THEN 1 ELSE 0)

\* the same on the trees in which no symbolic link makes the filter answer
\* SkipDir for an entry that os.Lstat does not call a directory
NoSkipDirOnLink ==
  \A p \in DOMAIN fs :
     fs[p].kind = "symdir" => filter(fs, exclusions, p, "nil").ret # "SkipDir"

C1_CompleteWithoutSkippedLinks ==
  (SingleDirRoot /\ NoIOErrors /\ NoSkipDirOnLink /\ pcMain = "done") =>
    \A p \in DOMAIN fs : sent[p] = (IF Interesting(p) THEN 1 ELSE 0)

C1_InlineWitness ==
  SingleDirRoot /\ NoIOErrors /\ NoSkipDirOnLink /\ pcMain = "done"
  /\ inlined # {} /\ \E p \in DOMAIN fs : Interesting(p) /\ Len(p) = 3

(***************************************************************************)
(* C2.  In aggregate mode, once the report rows are built (after the       *)
(* C-header reassignment), the SLOC, LLOC and file count of the `all` row  *)
(* each equal the sum of that field over the files with SLOC > 0, and each *)
(* equal the sum of that field over the reported per-language rows.        *)
(***************************************************************************)
C2_AllRowIsSum ==
  Reported =>
    \A field \in {"SLOC", "LLOC"} :
      LET col == IF field = "SLOC" THEN "slinecount" ELSE "llinecount" IN
        /\ totals[col] = FileSum(field)
        /\ totals[col] = RowSum(col)
        /\ totals.filecount = RowSum("filecount")
        /\ totals.filecount =
             SumOver(DOMAIN fs,
                     [p \in DOMAIN fs |->
                        IF StatOf(p).SLOC > 0 THEN sent[p] ELSE 0])

\* what does hold: the `all` row sums the files, and the rows' SLOC sum to it
C2_AllRowSumsFiles ==
  Reported =>
    /\ totals.slinecount = FileSum("SLOC")
    /\ totals.llinecount = FileSum("LLOC")
    /\ totals.slinecount = RowSum("slinecount")

(***************************************************************************)
(* C4.  After the C-header reassignment, whatever the per-language         *)
(* buckets were: if the report has a c-header row, it has no c, c++ or     *)
(* obj-c row.                                                              *)
(***************************************************************************)
C4_HeaderRowExcludesCFamily ==
  Reported =>
    ("c-header" \in RowLanguages => RowLanguages \cap {"c", "c++", "obj-c"} = {})

\* a report with a c-header row beside the row of another language
C4_Witness ==
  Reported /\ "c-header" \in RowLanguages /\ "mumps" \in RowLanguages

\* a report from which the headers next to C-family files were reassigned
C4_ReassignedWitness ==
  Reported /\ "c-header" \notin RowLanguages /\ "c++" \in RowLanguages
  /\ \E p \in DOMAIN fs : sent[p] = 1 /\ StatOf(p).Language = "c-header"

(***************************************************************************)
(* C5.  The reassignment moves the whole c-header bucket (SLOC, LLOC and   *)
(* file count) into the first of c, c++, obj-c that has SLOC > 0, deletes  *)
(* the c-header bucket and leaves every other bucket unchanged; one .h of  *)
(* SLOC 1 beside one .c of SLOC 2 gives a c row of SLOC 3 in 2 files.      *)
(***************************************************************************)
\* the first language of cHeaderPriority with a nonempty bucket, "" if none
HeaderTarget(cnts) ==
  IF \E i \in DOMAIN cHeaderPriority : Bucket(cnts, cHeaderPriority[i]).slinecount > 0
  THEN cHeaderPriority[CHOOSE i \in DOMAIN cHeaderPriority :
         /\ Bucket(cnts, cHeaderPriority[i]).slinecount > 0
         /\ \A j \in 1..(i - 1) : Bucket(cnts, cHeaderPriority[j]).slinecount = 0]
  ELSE ""

\* the buckets with the whole c-header bucket moved into language t
MovedWhole(cnts, t) ==
  [l \in DOMAIN cnts \ {"c-header"} |->
     IF l = t
     THEN [cnts[l] EXCEPT
             !.slinecount = @ + cnts["c-header"].slinecount,
             !.llinecount = @ + cnts["c-header"].llinecount,
             !.filecount = @ + cnts["c-header"].filecount]
     ELSE cnts[l]]

\* C5: the step that reassigns the headers moves the whole c-header bucket
C5_MovesWholeBucket ==
  [][ ( /\ ~individual /\ pcCons = "loop" /\ pcCons' = "done"
        /\ Bucket(counts, "c-header").slinecount > 0
        /\ HeaderTarget(counts) # "" )
      => counts' = MovedWhole(counts, HeaderTarget(counts)) ]_vars

\* what the code does: only the SLOC of the c-header bucket is moved
C5_MovesSlocOnly ==
  [][ ( /\ ~individual /\ pcCons = "loop" /\ pcCons' = "done"
        /\ Bucket(counts, "c-header").slinecount > 0
        /\ HeaderTarget(counts) # "" )
      => counts' =
           [l \in DOMAIN counts \ {"c-header"} |->
              IF l = HeaderTarget(counts)
              THEN [counts[l] EXCEPT
                      !.slinecount = @ + counts["c-header"].slinecount]
              ELSE counts[l]] ]_vars

\* the scenario: g.h with SLOC 1 and f.c with SLOC 2 give c: SLOC 3, 2 files
C5_Scenario ==
  ( /\ Reported
    /\ DOMAIN fs = { << >>, << "f.c" >>, << "g.h" >> }
    /\ fs[<< "f.c" >>].sloc = 2 /\ fs[<< "g.h" >>].sloc = 1 )
  => /\ "c-header" \notin DOMAIN counts
     /\ counts["c"].slinecount = 3
     /\ counts["c"].filecount = 2

(***************************************************************************)
(* C3.  With no I/O errors and a fair scheduler, every run ends: the       *)
(* wait-group reaches zero, walk returns, the work queue and the pipeline  *)
(* are each closed exactly once, no worker is left inside a visit, and the *)
(* mainline leaves its loop and reports; for a pipeline of depth 0 and of  *)
(* depth NumCPU alike, and when a full work queue forces inline visits.    *)
(***************************************************************************)
C3_Done ==
  /\ pcMain = "done" /\ pcCons = "done" /\ exitStatus = 0
  /\ active = 0 /\ queue = << >> /\ pipeline = << >>
  /\ \A w \in Workers : stack[w] = << >>
  /\ vClosed = 1 /\ pipeClosed = 1

\* C3: without I/O errors the run ends in C3_Done, and neither channel is
\* closed twice nor the wait-group driven below zero on the way
C3_Terminates ==
  NoIOErrors => /\ <>C3_Done
                /\ [](vClosed <= 1 /\ pipeClosed <= 1 /\ active >= 0)

\* a finished run without I/O errors in which a full work queue made a
\* worker visit a directory inline
C3_InlineWitness ==
  NoIOErrors /\ C3_Done /\ inlined # {} /\ chandepth = 0

\* the same on a buffered pipeline, after two walkers shared the work
C3_BufferedWitness ==
  NoIOErrors /\ C3_Done /\ chandepth > 0 /\ totals.filecount > 1

(***************************************************************************)
(* C6.  In individual mode (pipeline of depth 0) the order of the printed  *)
(* records is fixed by the tree: every run over the base tree prints the   *)
(* records in one and the same order, here the order of a serial           *)
(* depth-first walk, however the workers are scheduled.                    *)
(***************************************************************************)
\* the files a serial depth-first walk in name order hands to the
\* classifier, from the paths todo on
RECURSIVE SerialOrder(_)
SerialOrder(todo) ==
  IF todo = << >> THEN << >>
  ELSE LET p == Head(todo)
           names == readDirNames(fs, p)
       IN IF LstatIsDir(fs, p)
          THEN SerialOrder([i \in 1..Len(names) |-> Append(p, names[i])]
                           \o Tail(todo))
          ELSE (IF Interesting(p) THEN << p >> ELSE << >>)
               \o SerialOrder(Tail(todo))

PrintedPaths == [i \in DOMAIN printed |-> printed[i].Path]

C6_IndividualRun ==
  /\ individual /\ ~unclassified /\ fs = BaseTree /\ exclusions = {}
  /\ SingleDirRoot /\ pcCons = "done"

\* C6: every individual-mode run over the base tree prints in the serial order
C6_DeterministicOrder ==
  C6_IndividualRun => PrintedPaths = SerialOrder(<< << >> >>)

\* one run over the base tree does print in the serial order ...
C6_SerialOrderPrinted ==
  C6_IndividualRun /\ PrintedPaths = SerialOrder(<< << >> >>)

\* ... and another run over it prints z.c, the last name of the root, first
C6_OtherOrderPrinted ==
  C6_IndividualRun /\ Len(printed) = 4 /\ printed[1].Path = << "z.c" >>

(***************************************************************************)
(* C7.  A fatal I/O error of the walk (a directory that cannot be read) is *)
(* latched by the walker and makes the exit status of the process nonzero; *)
(* the partial counts are still reported.                                  *)
(***************************************************************************)
C7_ErrorExitsNonzero ==
  (exitStatus # -1 /\ walkErr = "EIO") => exitStatus # 0

\* what does hold: the error is latched and returned by walk, and the counts
\* made before it are reported
C7_LatchedAndReported ==
  (pcCons = "done" /\ ~individual /\ \E p \in DOMAIN fs : LstatIsDir(fs, p) /\ ~fs[p].ok /\ seen[p] > 0)
    => /\ walkErr = "EIO"
       /\ totals.slinecount = FileSum("SLOC")

(***************************************************************************)
(* C8.  A regular file that passed the path filter and cannot be opened is *)
(* skipped: nothing reads its unopened stream, the program does not crash, *)
(* no record is counted for it and the other files are still counted.      *)
(***************************************************************************)
C8_UnopenableSkipped ==
  \A p \in DOMAIN fs :
     ( /\ isRegular(fs, p) /\ ~fs[p].ok /\ seen[p] > 0
       /\ filter(fs, exclusions, p, "nil").passed )
     => ~crashed /\ exitStatus \in {-1, 0}

(***************************************************************************)
(* C9.  With -u, no file that the generated-file detector or a verifier    *)
(* rejected is printed as unclassified.                                    *)
(***************************************************************************)
\* a row of the catalog matches the name and its detector finds the file
\* generated
DetectorRejects(p) ==
  \E i \in DOMAIN genericLanguages :
     /\ HasSuffix(Base(p), genericLanguages[i].suffix)
     /\ wasGeneratedAutomatically(fs[p], genericLanguages[i].eolcomment)

\* a row of the catalog matches the name and its verifier says no
VerifierRejects(p) ==
  \E i \in DOMAIN genericLanguages :
     /\ HasSuffix(Base(p), genericLanguages[i].suffix)
     /\ genericLanguages[i].verifier # "nil"
     /\ ~fs[p].verified

\* C9: nothing listed by -u was rejected by the detector or by a verifier
C9_RejectedNotListed ==
  unclassified =>
    \A i \in DOMAIN printed :
       ~DetectorRejects(printed[i]) /\ ~VerifierRejects(printed[i])

\* what does hold: -u lists exactly the files handed to the classifier that
\* came back with SLOC 0
C9_ListsZeroSloc ==
  (unclassified /\ pcCons = "done" /\ SingleDirRoot /\ firstError = "nil")
    => { printed[i] : i \in DOMAIN printed }
         = { p \in DOMAIN fs : Interesting(p) /\ StatOf(p).SLOC = 0 }

(***************************************************************************)
(* C10.  No symbolic link met during the walk is followed: a link to a     *)
(* regular file produces no SourceStat, and a link to a directory is       *)
(* never traversed.                                                        *)
(***************************************************************************)
\* the directory p is being visited, or waits to be
Traversed(p) ==
  \/ \E i \in DOMAIN queue : queue[i] = p
  \/ \E w \in Workers : \E i \in DOMAIN stack[w] : stack[w][i].path = p
  \/ p \in inlined

\* C10: no record for a link to a file, no traversal of a link to a directory
C10_LinksNotFollowed ==
  \A p \in DOMAIN fs :
     /\ fs[p].kind = "symfile" => sent[p] = 0
     /\ fs[p].kind = "symdir" => ~Traversed(p) /\ seen[p] <= 1

\* what does hold: a link to a directory is handed to the filter once and
\* never traversed
C10_DirLinksNotTraversed ==
  \A p \in DOMAIN fs :
     fs[p].kind = "symdir" => ~Traversed(p) /\ seen[p] <= 1

(***************************************************************************)
(* C11.  No path that begins with "." or contains "/." (a file or a        *)
(* directory named with a leading dot, or anything beneath one) produces a *)
(* SourceStat: it is neither counted nor listed by -u.                     *)
(***************************************************************************)
\* the path as a string begins with "." or contains "/."
DotPath(p) == p # << >> /\ \E i \in 1..Len(p) : DotName(p[i])

C11_DotPathsNeverSent ==
  /\ \A p \in DOMAIN fs : DotPath(p) => sent[p] = 0
  /\ \A i \in DOMAIN pipeline : ~DotPath(pipeline[i].Path)
  /\ \A i \in DOMAIN printed :
        ~DotPath(IF unclassified THEN printed[i] ELSE printed[i].Path)

\* the walk is over and the filter was handed regular files beneath a dot
\* directory of the root and beneath one further down
C11_Witness ==
  /\ pcMain = "done"
  /\ \E p \in DOMAIN fs :
        Len(p) = 2 /\ DotName(p[1]) /\ isRegular(fs, p) /\ seen[p] > 0
  /\ \E p \in DOMAIN fs : Len(p) >= 2 /\ DotName(p[2]) /\ seen[p] > 0

(***************************************************************************)
(* C12.  The walker never lists the entries of a directory whose path      *)
(* contains "/." or ".so.", whatever the directory's name ends with: no    *)
(* entry of such a directory is ever handed to the filter.                 *)
(***************************************************************************)
C12_NeverDescends ==
  \A p \in DOMAIN fs :
     (Len(p) >= 2 /\ HasInfix(Front(p))) => seen[p] = 0

\* what does hold: such a directory is not listed unless filepath.Ext of its
\* name is one of the ignored suffixes
C12_PrunedUnlessSuffix ==
  \A p \in DOMAIN fs :
     ( /\ Len(p) >= 2 /\ HasInfix(Front(p))
       /\ Ext(Base(Front(p))) \notin neverInterestingBySuffix )
     => seen[p] = 0

(***************************************************************************)
(* C13.  Excluding one file f with -x changes the totals of the `all` row  *)
(* by exactly f's contribution: the SLOC, LLOC and file count of a run     *)
(* with the exclusion are those of the run without it, minus f's SLOC,     *)
(* LLOC and 1 (a file that was not counted contributes nothing).           *)
(***************************************************************************)
\* the paths the roots of the run lead to
UnderRoots(p) == \E i \in DOMAIN roots : roots[i] = << >> \/ roots[i] = p

\* what a file adds to the totals when nothing is excluded
Contribution(p) ==
  LET r == filter(fs, {}, p, "nil") IN
    IF p # << >> /\ isRegular(fs, p) /\ UnderRoots(p) /\ r.passed /\ r.stat.SLOC > 0
    THEN [slinecount |-> r.stat.SLOC, llinecount |-> r.stat.LLOC, filecount |-> 1]
    ELSE [slinecount |-> 0, llinecount |-> 0, filecount |-> 0]

\* the totals of the complete count of the tree without exclusions
Unexcluded(field) ==
  SumOver(DOMAIN fs, [p \in DOMAIN fs |-> Contribution(p)[field]])

Excluded(field) ==
  SumOver(exclusions, [p \in exclusions |-> Contribution(p)[field]])

C13_ExclusionDifference ==
  Reported =>
    \A field \in {"slinecount", "llinecount", "filecount"} :
       totals[field] = Unexcluded(field) - Excluded(field)

\* what does hold: the same on the trees where no link is answered SkipDir
C13_WithoutSkippedLinks ==
  (Reported /\ NoSkipDirOnLink) =>
    \A field \in {"slinecount", "llinecount", "filecount"} :
       totals[field] = Unexcluded(field) - Excluded(field)

\* a finished run that excluded a file which would have been counted
C13_ExcludedWitness ==
  /\ Reported /\ NoSkipDirOnLink /\ roots = << << >> >>
  /\ \E p \in exclusions : Contribution(p).filecount = 1
  /\ totals.filecount > 1

(***************************************************************************)
(* Notions for the properties of the counters.                             *)
(***************************************************************************)
\* the name and the bytes of the one file of a run on a file given by its
\* bytes
FileName == roots[1][1]

FileText == fs[roots[1]].text

\* main has handed the file to the filter
Filtered == rootIdx > 1

\* the run is on one file given by its bytes, and the file has been counted
OnText ==
  Len(roots) = 1 /\ Len(roots[1]) = 1 /\ FileText # NoText /\ Filtered

\* the record the classifier makes of a file of this name and these bytes
Classified(name, text) ==
  Generic(( << name >> :> TextNode(name, text) ), << name >>)

\* the descriptor the catalog scan counts a C-family file of this name by
SyntaxOf(name) == genericLanguages[FirstRow(genericLanguages, name)]

CFamilyNames == {"f.c", "q.s"}

\* cFamilyCounter's state at the end of a file of this name and these bytes
AtEnd(name, text) == cFamilyLoop(text, SyntaxOf(name), cFamilyStart(text))

\* the bytes of text after its last newline
LastLine(text) ==
  From(text, LastIndex(text, << "\n" >>) + 1)

(***************************************************************************)
(* C14.  For every counter, a file whose last line is nonblank code        *)
(* without a trailing newline has the same SLOC as the same content with   *)
(* a final newline added: the last line is counted.                        *)
(***************************************************************************)
C14_LastLineCounted ==
  (OnText /\ LastLine(FileText) = << "x" >>) =>
     StatOf(roots[1]).SLOC =
       Classified(FileName, FileText \o << "\n" >>).SLOC

\* the counters that read byte by byte (C-family, Pascal) count the last
\* line
C14_ByteCountersCountLastLine ==
  (OnText /\ LastLine(FileText) = << "x" >>
     /\ FileName \in {"f.c", "q.s", "e.pas"}) =>
     StatOf(roots[1]).SLOC =
       Classified(FileName, FileText \o << "\n" >>).SLOC

(***************************************************************************)
(* C15.  For every counter and every content, appending one blank line (a  *)
(* lone newline) to the file changes neither its SLOC nor its LLOC.        *)
(***************************************************************************)
C15_BlankLineNeutral ==
  OnText =>
     LET more == Classified(FileName, FileText \o << "\n" >>)
     IN more.SLOC = StatOf(roots[1]).SLOC /\ more.LLOC = StatOf(roots[1]).LLOC

\* it holds of the C-family counter with a terminator other than the
\* newline, of the generic, Python and Perl counters on a file that ends
\* with a newline, and of the Pascal counter
C15_NeutralWhereLinesEnd ==
  (OnText /\ FileName \notin {"q.s", "h.f", "h.f90"}
     /\ (FileName \in {"d.adb", "p.py", "q.pl"} =>
           LastLine(FileText) = << >>)) =>
     LET more == Classified(FileName, FileText \o << "\n" >>)
     IN more.SLOC = StatOf(roots[1]).SLOC /\ more.LLOC = StatOf(roots[1]).LLOC

\* the file ends with a newline
EndsWithNewline(text) == text # << >> /\ text[Len(text)] = "\n"

(***************************************************************************)
(* C16.  For a file of a language whose terminator is ";" (C-family and    *)
(* generic counter alike) that ends with a newline outside any comment or  *)
(* string, appending the line "x;" and a newline adds exactly 1 to SLOC    *)
(* and exactly 1 to LLOC.                                                  *)
(***************************************************************************)
C16_StatementLineAddsOne ==
  (/\ OnText
   /\ FileName \in {"f.c", "d.adb"}
   /\ EndsWithNewline(FileText)
   /\ FileName = "f.c" => AtEnd(FileName, FileText).mode = "NORMAL") =>
     LET more == Classified(FileName, FileText \o << "x", ";", "\n" >>)
     IN /\ more.SLOC = StatOf(roots[1]).SLOC + 1
        /\ more.LLOC = StatOf(roots[1]).LLOC + 1

\* it holds when the final newline was read as the end of a line, which a
\* newline read by the character-literal branch is not
C16_AfterLineEnd ==
  (/\ OnText
   /\ FileName \in {"f.c", "d.adb"}
   /\ EndsWithNewline(FileText)
   /\ FileName = "f.c" =>
        AtEnd(FileName, FileText).mode = "NORMAL" /\ ~AtEnd(FileName, FileText).nonblank) =>
     LET more == Classified(FileName, FileText \o << "x", ";", "\n" >>)
     IN /\ more.SLOC = StatOf(roots[1]).SLOC + 1
        /\ more.LLOC = StatOf(roots[1]).LLOC + 1

\* the text with each "\n" line ending replaced by "\r\n"
RECURSIVE ToCRLF(_)
ToCRLF(text) ==
  IF text = << >> THEN << >>
  ELSE IF Head(text) = "\n" THEN << "\r", "\n" >> \o ToCRLF(Tail(text))
  ELSE << Head(text) >> \o ToCRLF(Tail(text))

(***************************************************************************)
(* C17.  For every counter and every content, the file with each "\n"      *)
(* line ending replaced by "\r\n" has the same SLOC and LLOC as the file.  *)
(***************************************************************************)
C17_CRLFSameCounts ==
  OnText =>
     LET dos == Classified(FileName, ToCRLF(FileText))
     IN dos.SLOC = StatOf(roots[1]).SLOC /\ dos.LLOC = StatOf(roots[1]).LLOC

\* it holds of every counter on the contents in which no apostrophe opens
\* a C-style character literal
C17_CRLFSameWithoutCharLiteral ==
  (OnText /\ (FileName = "f.c" => ~Contains(FileText, << "'" >>))) =>
     LET dos == Classified(FileName, ToCRLF(FileText))
     IN dos.SLOC = StatOf(roots[1]).SLOC /\ dos.LLOC = StatOf(roots[1]).LLOC

\* the bytes after the block-comment leader that opens the text
CommentBody(text) == From(text, 3)

\* the whole text is one block comment: it opens with the leader, and the
\* first trailer, if there is one, is its end
IsBlockComment(text) ==
  /\ HasPrefix(text, << "/", "*" >>)
  /\ Index(CommentBody(text), << "*", "/" >>) \in {0, Len(text) - 3}

ClosedComment(text) == Index(CommentBody(text), << "*", "/" >>) # 0

(***************************************************************************)
(* C18.  In the C-family counter, a file whose whole content is a single   *)
(* block comment, of any number of lines and any interior text, has        *)
(* SLOC = 0, and a diagnostic is written if and only if the comment is not *)
(* closed before the end of the file.                                      *)
(***************************************************************************)
C18_BlockCommentCountsNothing ==
  (OnText /\ FileName \in CFamilyNames /\ IsBlockComment(FileText)) =>
     /\ StatOf(roots[1]).SLOC = 0
     /\ cFamilyCounter(FileText, SyntaxOf(FileName)).sloc = 0
     /\ cFamilyCounter(FileText, SyntaxOf(FileName)).diagnostic # ""
          <=> ~ClosedComment(FileText)

\* the diagnostic is written exactly for the unclosed comment
C18_DiagnosticIffUnclosed ==
  (OnText /\ FileName \in CFamilyNames /\ IsBlockComment(FileText)) =>
     cFamilyCounter(FileText, SyntaxOf(FileName)).diagnostic # ""
       <=> ~ClosedComment(FileText)

\* a comment none of whose lines begins with "%" counts nothing
C18_NothingWithoutPercentLine ==
  (/\ OnText /\ FileName \in CFamilyNames /\ IsBlockComment(FileText)
   /\ ~Contains(FileText, << "\n", "%" >>)) =>
     StatOf(roots[1]).SLOC = 0

\* the tokens that open or close a comment in a file of this name
CommentTokens(name) ==
  { Bytes(SyntaxOf(name).commentleader), Bytes(SyntaxOf(name).commenttrailer),
    Bytes(SyntaxOf(name).eolcomment) }

\* a one-line and a two-line string literal that hold the token, each
\* followed by a newline; lines is the number of lines with a part of it
StringsWith(token) ==
  { [bytes |-> << "\"" >> \o token \o << "x", "\"", "\n" >>, lines |-> 1],
    [bytes |-> << "\"", "x", "\n" >> \o token \o << "x", "\"", "\n" >>,
     lines |-> 2] }

\* appended to the text at the start of a line in running text, every
\* string literal that holds a comment token leaves the counter in running
\* text and adds one source line for each of its lines
StringsHideComments(name, text) ==
  \A token \in CommentTokens(name) :
     \A str \in StringsWith(token) :
        LET after == AtEnd(name, text \o str.bytes)
        IN /\ after.mode = "NORMAL"
           /\ after.sloc = AtEnd(name, text).sloc + str.lines

\* the end of the text is the start of a line in running text
AtLineStart(name, text) ==
  AtEnd(name, text).mode = "NORMAL" /\ ~AtEnd(name, text).nonblank

HashLines(text) ==
  Cardinality({ i \in 1..Len(text) :
                  text[i] = "#" /\ (i = 1 \/ text[i - 1] = "\n") })

\* the number of iterations of cFamilyCounter's loop, from the state s on,
\* that begin in NORMAL mode by reading the terminator byte
RECURSIVE NormalTerminators(_, _, _)
NormalTerminators(name, text, s) ==
  IF s.hung \/ s.pos > Len(text) THEN 0
  ELSE (IF /\ s.mode = "NORMAL"
           /\ << text[s.pos] >> = Bytes(SyntaxOf(name).terminator)
        THEN 1 ELSE 0)
       + NormalTerminators(name, text, cFamilyStep(text, SyntaxOf(name), s))

(***************************************************************************)
(* C20.  For a C-family file, LLOC is the number of terminator bytes read  *)
(* in NORMAL mode (outside comments, strings and character literals) plus  *)
(* the number of lines whose first byte is "#", the first line included.   *)
(***************************************************************************)
C20_LlocIsTerminatorsPlusDirectives ==
  (OnText /\ FileName \in CFamilyNames) =>
     StatOf(roots[1]).LLOC =
       NormalTerminators(FileName, FileText, cFamilyStart(FileText))
         + HashLines(FileText)

\* it holds of the files in which no "#" follows a "%" at the start of a
\* line and no apostrophe opens a C-style character literal
C20_WithoutPercentHashAndCharLiteral ==
  (/\ OnText /\ FileName \in CFamilyNames
   /\ ~Contains(FileText, << "\n", "%", "#" >>)
   /\ FileName = "f.c" => ~Contains(FileText, << "'" >>)) =>
     StatOf(roots[1]).LLOC =
       NormalTerminators(FileName, FileText, cFamilyStart(FileText))
         + HashLines(FileText)
(***************************************************************************)
(* C21.  In the Python counter a triple-quoted string that begins at the   *)
(* start of a line (after optional whitespace) and closes on a later line  *)
(* is a docstring: none of its lines is counted, and counting resumes on   *)
(* the line after the close, so that the file counts what the lines after  *)
(* the string count; the file """doc\nstring"""\nx=1\n gives SLOC 1 and    *)
(* LLOC 1.                                                                 *)
(***************************************************************************)
\* the file is the docstring d followed by rest, and counts as rest does
CountsAsRest(d, rest) ==
  FileText = d \o rest =>
    /\ StatOf(roots[1]).SLOC = pythonCounter(rest).sloc
    /\ StatOf(roots[1]).LLOC = pythonCounter(rest).lloc

C21_DocstringNotCounted ==
  (OnText /\ FileName = "p.py") =>
    /\ \A lead \in DocLeads, q \in {dtBytes, stBytes}, b1 \in DocFirst :
         \A b2 \in DocLast(q), rest \in DocRests :
            CountsAsRest(Docstring(lead, q, b1, b2), rest)
    /\ FileText = DocstringFile =>
         StatOf(roots[1]).SLOC = 1 /\ StatOf(roots[1]).LLOC = 1

\* what does hold: the same for the strings whose closing line holds no "#"
\* before the close, and the counts of the file of the claim
C21_DocstringWithoutHash ==
  (OnText /\ FileName = "p.py") =>
    /\ \A lead \in DocLeads, q \in {dtBytes, stBytes}, b1 \in DocFirst :
         \A b2 \in DocLast(q) \ {<< "#" >>}, rest \in DocRests :
            CountsAsRest(Docstring(lead, q, b1, b2), rest)
    /\ FileText = DocstringFile =>
         StatOf(roots[1]).SLOC = 1 /\ StatOf(roots[1]).LLOC = 1
(***************************************************************************)
(* C22.  A Python file containing exactly x="""a\nb"""\n (a multi-line     *)
(* triple-quoted string that does not start at the beginning of the line)  *)
(* yields SLOC 2 and LLOC 2: the line that opens the string and the line   *)
(* that closes it are each counted as code.                                *)
(***************************************************************************)
C22_TripleStringRun == OnText /\ FileName = "p.py" /\ FileText = TripleStringFile

C22_TripleStringCountsBothLines ==
  C22_TripleStringRun =>
    /\ StatOf(roots[1]).Language = "python"
    /\ StatOf(roots[1]).SLOC = 2
    /\ StatOf(roots[1]).LLOC = 2
    /\ Reported => totals.slinecount = 2 /\ totals.llinecount = 2

\* the claim as made: SLOC 1 and LLOC 1
C22_TripleStringCountsOnce ==
  C22_TripleStringRun =>
    StatOf(roots[1]).SLOC = 1 /\ StatOf(roots[1]).LLOC = 1

\* the report of a run on the file
C22_Witness == C22_TripleStringRun /\ Reported /\ Len(summary) = 1
(***************************************************************************)
(* C23.  In the Perl counter, outside any here-document, the lines from a  *)
(* POD start ("=" and a letter at the start of a line) through the next    *)
(* =cut line inclusive are not counted, while the code lines before and    *)
(* after are: the file counts what the lines around the block count; the   *)
(* file print 1;\n=pod\ndoc\n=cut\nprint 2;\n gives SLOC 2 and LLOC 2.     *)
(***************************************************************************)
\* the file is a POD block between before and after, and counts as the two
\* do without the block
CountsAsAround(before, pod, after) ==
  FileText = before \o pod \o after =>
    /\ StatOf(roots[1]).SLOC = perlCounter(before \o after).sloc
    /\ StatOf(roots[1]).LLOC = perlCounter(before \o after).lloc

C23_PodNotCounted ==
  (OnText /\ FileName = "q.pl") =>
    /\ \A before \in PodRests, b \in PodBodies, after \in PodRests :
         CountsAsAround(before, PodBlock(b), after)
    /\ FileText = PodFile =>
         StatOf(roots[1]).SLOC = 2 /\ StatOf(roots[1]).LLOC = 2

\* what does hold: the same for the blocks that hold no "<<", and the counts
\* of the file of the claim
C23_PodWithoutShift ==
  (OnText /\ FileName = "q.pl") =>
    /\ \A before \in PodRests, b \in PodBodies, after \in PodRests :
         ~Contains(b, << "<", "<" >>) =>
            CountsAsAround(before, PodBlock(b), after)
    /\ FileText = PodFile =>
         StatOf(roots[1]).SLOC = 2 /\ StatOf(roots[1]).LLOC = 2
(***************************************************************************)
(* C24.  A Fortran-77 file (suffix .f) is classified as fortran, and a     *)
(* line of it that starts with C in column 1 is a comment line and is not  *)
(* counted: the file counts what the lines after that line count; the file *)
(* C comment line\n      print *,1\n gives SLOC 1.                         *)
(***************************************************************************)
\* the descriptor of fortranLikes that a file of this name is counted by
FortranOf(name) ==
  fortranLikes[CHOOSE i \in DOMAIN fortranLikes :
                 HasSuffix(name, fortranLikes[i].suffix)]

\* the file begins with a line whose first byte is c, and counts as the lines
\* after that line do
CommentLine(c) ==
  (FileText # << >> /\ FileText[1] = c /\ NextNewline(FileText, 1) > 0) =>
    StatOf(roots[1]).SLOC =
      fortranCounter(From(FileText, NextNewline(FileText, 1) + 1),
                     FortranOf(FileName)).sloc

C24_F77CommentNotCounted ==
  (OnText /\ FileName = "h.f") =>
    /\ StatOf(roots[1]).SLOC > 0 => StatOf(roots[1]).Language = "fortran"
    /\ CommentLine("C")
    /\ FileText = F77File => StatOf(roots[1]).SLOC = 1

\* what does hold: a line that starts with a lower-case c, or with *, is not
\* counted, and a file with a counted line is fortran
C24_LowerCaseCommentNotCounted ==
  (OnText /\ FileName = "h.f") =>
    /\ StatOf(roots[1]).SLOC > 0 => StatOf(roots[1]).Language = "fortran"
    /\ CommentLine("c")
    /\ CommentLine("*")
(***************************************************************************)
(* Notions for the properties of the catalog scan.                         *)
(***************************************************************************)
\* the run is on one regular file, and main has handed it to the filter
OnFile == Len(roots) = 1 /\ Len(roots[1]) = 1 /\ Filtered

\* the rows of a table whose suffix the name has
Matching(table, name) ==
  { i \in DOMAIN table : HasSuffix(name, table[i].suffix) }

(***************************************************************************)
(* C25.  In the language catalog as declared, for every file name at most  *)
(* one descriptor without a verifier matches it, and every descriptor with *)
(* a verifier that matches the same name precedes that one; hence no       *)
(* descriptor is pre-empted by an earlier verifier-less descriptor with    *)
(* the same suffix.                                                        *)
(***************************************************************************)
\* at most one row of the table without a verifier matches the name
OneFallback(table, name) ==
  \A i, j \in Matching(table, name) :
     (table[i].verifier = "nil" /\ table[j].verifier = "nil") => i = j

\* the matching rows with a verifier precede the matching rows without
VerifiersFirst(table, name) ==
  \A i, j \in Matching(table, name) :
     (table[i].verifier # "nil" /\ table[j].verifier = "nil") => i < j

C25_CatalogSelfConsistent ==
  OnFile =>
    \A table \in {genericLanguages, pascalLikes} :
       OneFallback(table, FileName) /\ VerifiersFirst(table, FileName)

\* what does hold: the rows with a verifier come first
C25_VerifiersPrecedeFallbacks ==
  OnFile =>
    \A table \in {genericLanguages, pascalLikes} :
       VerifiersFirst(table, FileName)
(***************************************************************************)
(* C26.  The rows of the aggregate report are emitted in non-increasing    *)
(* SLOC order: the comparator, which compares the unsigned (wrap-around)   *)
(* negations of the SLOC counts, orders every pair of rows that reaches    *)
(* the report in descending SLOC, as it does a row of the report and a row *)
(* of any other nonzero count.                                             *)
(***************************************************************************)
C26_ReportDescending ==
  Reported =>
    /\ \A i, j \in DOMAIN summary :
          i < j => summary[i].slinecount >= summary[j].slinecount
    /\ \A i, j \in DOMAIN summary :
          Less(summary[i], summary[j])
            <=> summary[i].slinecount > summary[j].slinecount
    /\ \A i \in DOMAIN summary, n \in 1..(UintRange - 1) :
          Less(summary[i], [summary[i] EXCEPT !.slinecount = n])
            <=> summary[i].slinecount > n

\* a report of the `all` row and the rows of two languages, of different SLOC
C26_Witness ==
  /\ Reported
  /\ Len(summary) = 3
  /\ summary[1].language = "all"
  /\ summary[2].slinecount > summary[3].slinecount
(***************************************************************************)
(* C27.  The skip-directory sentinel returned by the path filter is never  *)
(* treated as an error: for every kind of directory entry that makes the   *)
(* filter return it, it only prevents the recursion into that entry; it    *)
(* never becomes the walker's latched first error and never stops the      *)
(* visiting of the remaining entries.                                      *)
(***************************************************************************)
\* the filter answers SkipDir for the path
AnswersSkipDir(p) == filter(fs, exclusions, p, "nil").ret = "SkipDir"

\* an entry that follows, in the same directory, one the filter answers
\* SkipDir for
AfterSkipped(p) ==
  /\ Len(p) >= 1
  /\ \E q \in DOMAIN fs :
        /\ Len(q) = Len(p) /\ Front(q) = Front(p) /\ AnswersSkipDir(q)
        /\ \E i, j \in DOMAIN NameOrder :
              i < j /\ NameOrder[i] = Base(q) /\ NameOrder[j] = Base(p)

C27_SkipDirIsNoError ==
  /\ firstError # "SkipDir"
  /\ walkErr # "SkipDir"
  /\ (SingleDirRoot /\ NoIOErrors /\ pcMain = "done") =>
        /\ \A p \in DOMAIN fs : (Len(p) >= 2 /\ AnswersSkipDir(Front(p))) => seen[p] = 0
        /\ \A p \in DOMAIN fs :
              (AfterSkipped(p) /\ ~HasInfix(Front(p)) /\ ~HasDotPrefix(p)) => seen[p] > 0

\* what does hold: the same on the trees in which the filter answers SkipDir
\* for entries that os.Lstat calls a directory only
C27_NoErrorForDirectories ==
  NoSkipDirOnLink =>
    /\ firstError # "SkipDir"
    /\ walkErr # "SkipDir"
    /\ (SingleDirRoot /\ NoIOErrors /\ pcMain = "done") =>
          /\ \A p \in DOMAIN fs : (Len(p) >= 2 /\ AnswersSkipDir(Front(p))) => seen[p] = 0
          /\ \A p \in DOMAIN fs :
                (AfterSkipped(p) /\ ~HasInfix(Front(p)) /\ ~HasDotPrefix(p)) => seen[p] > 0
(***************************************************************************)
(* C28.  Once the walker has latched its first fatal error, the latched    *)
(* error never changes and no further path is passed to the filter by any  *)
(* worker: all activity after the latch short-circuits, including the      *)
(* remaining entries of the directories that other workers are in the      *)
(* middle of listing.                                                      *)
(***************************************************************************)
\* a walk is under way and its first error is latched
Latched == pcMain = "wait" /\ terminated

\* the latched error is a fatal one, the failure to read a directory
FatalLatched == Latched /\ firstError = "EIO"

\* the directories some worker is listing
Listed == { f.path : f \in UNION { { stack[w][i] : i \in DOMAIN stack[w] } : w \in Workers } }

C28_LatchStopsAllActivity ==
  [][ FatalLatched =>
        (firstError' = firstError /\ seen' = seen /\ sent' = sent) ]_vars

\* what does hold: the latched error is kept, and no directory is listed or
\* queued that was not before the latch
C28_LatchKeptNoNewListing ==
  [][ Latched =>
        /\ firstError' = firstError
        /\ \A w \in Workers : \A i \in DOMAIN stack'[w] :
              stack'[w][i].stage = "loop" => stack'[w][i].path \in Listed ]_vars
(***************************************************************************)
(* C29.  At every state of a walk the wait-group counter is at least the   *)
(* number of directories sitting in the work queue plus the number being   *)
(* processed by a worker that popped them, and it is zero only when the    *)
(* queue is empty and no worker is inside visitFile; consequently no item  *)
(* is pushed on the work queue after it is closed and no SourceStat is     *)
(* sent on the result pipeline after it is closed.                         *)
(***************************************************************************)
\* the workers inside the visitFile of a directory they popped
Visiting == { w \in Workers : stack[w] # << >> }

C29_CounterCoversWork ==
  pcMain = "wait" =>
    /\ active >= Len(queue) + Cardinality(Visiting)
    /\ active = 0 => (queue = << >> /\ Visiting = {})

C29_NoUseAfterClose ==
  [][ /\ Len(queue') > Len(queue) => (vClosed' = 0 /\ pcMain' = "wait")
      /\ (sent' # sent \/ Len(pipeline') > Len(pipeline)) => pipeClosed = 0
      /\ vClosed' > vClosed => (queue = << >> /\ Visiting = {}) ]_vars

C29_WaitGroup == []C29_CounterCoversWork /\ C29_NoUseAfterClose

\* a walk in which a directory waits in the queue while both workers are
\* inside visitFile, one of them after an inline visit
C29_Witness ==
  /\ pcMain = "wait"
  /\ queue # << >>
  /\ Cardinality(Visiting) = Walkers
  /\ active = Len(queue) + Walkers
  /\ inlined # {}

\* the end of a run whose walk latched an error
C29_ClosedWitness ==
  pcMain = "done" /\ vClosed = 1 /\ pipeClosed = 1 /\ walkErr # "nil"
(***************************************************************************)
(* C30.  During the catalog scan, for a matching descriptor that has a     *)
(* verifier, the verifier is run before the generated-file detector, and a *)
(* verifier rejection makes the scan continue with the next descriptor:    *)
(* neither the generated-file detector nor the counter of the rejected     *)
(* descriptor decides the file's outcome.                                  *)
(***************************************************************************)
\* row i of the catalog matches the file of the run and its verifier rejects
\* the file
RejectedRow(i) ==
  /\ HasSuffix(FileName, genericLanguages[i].suffix)
  /\ genericLanguages[i].verifier # "nil"
  /\ ~fs[roots[1]].verified

\* the scan that reaches row i goes on as the scan from the next row does
ContinuesAfter(i) ==
  GenericScan(FileName, fs[roots[1]], i, EmptyStat)
    = GenericScan(FileName, fs[roots[1]], i + 1, EmptyStat)

C30_RejectionContinuesScan ==
  OnFile =>
    \A i \in DOMAIN genericLanguages : RejectedRow(i) => ContinuesAfter(i)

\* what does hold: the same for the files in which the detector finds no
\* marker behind the rejected row's comment leader
C30_ContinuesUnlessMarked ==
  OnFile =>
    \A i \in DOMAIN genericLanguages :
       ( /\ RejectedRow(i)
         /\ ~wasGeneratedAutomatically(fs[roots[1]],
                                       genericLanguages[i].eolcomment) )
       => ContinuesAfter(i)
(***************************************************************************)
(* C31.  For every suffix carried by a verifier-bearing descriptor there   *)
(* is a later verifier-less descriptor for the same suffix, so a           *)
(* non-generated file with such a suffix and at least one code line is     *)
(* always classified to some language, even when every verifier for that   *)
(* suffix rejects it.                                                      *)
(***************************************************************************)
\* the verifiers of the rows of a table whose suffix the name has, in the
\* table's order
Verifiers(table, name) ==
  LET Hit(row) == HasSuffix(name, row.suffix)
      hits == SelectSeq(table, Hit)
  IN [i \in DOMAIN hits |-> hits[i].verifier]

\* the verifiers of all the descriptors that Generic can try on a file of
\* this name, in the order it tries them: genericLanguages, the tests for
\* python and perl, scriptingLanguages, pascalLikes, fortranLikes
Descriptors(name) ==
  LET Hit(row) == HasSuffix(name, row.suffix)
      special == IF \/ HasSuffix(name, ".py") \/ HasSuffix(name, ".pl")
                    \/ HasSuffix(name, ".pm") \/ HasSuffix(name, ".ph")
                 THEN << "nil" >> ELSE << >>
      fortran == SelectSeq(fortranLikes, Hit)
  IN Verifiers(genericLanguages, name) \o special
       \o Verifiers(scriptingLanguages, name)
       \o Verifiers(pascalLikes, name)
       \o [i \in DOMAIN fortran |-> "nil"]

\* some descriptor with a verifier has the name's suffix
VerifierBearing(name) ==
  \E i \in DOMAIN Descriptors(name) : Descriptors(name)[i] # "nil"

\* after every descriptor with a verifier comes one without
HasFallback(name) ==
  \A i \in DOMAIN Descriptors(name) :
     Descriptors(name)[i] # "nil" =>
       \E j \in DOMAIN Descriptors(name) :
          j > i /\ Descriptors(name)[j] = "nil"

\* the file of the run carries no marker of generation and has a code line
CodeFile == fs[roots[1]].gen = {} /\ fs[roots[1]].sloc > 0

\* the classifier names a language for the file and counts its lines
ClassifiedFile ==
  StatOf(roots[1]).Language # "" /\ StatOf(roots[1]).SLOC > 0

C31_FallbackForEverySuffix ==
  (OnFile /\ VerifierBearing(FileName)) =>
     /\ HasFallback(FileName)
     /\ CodeFile => ClassifiedFile

\* what does hold: where the catalog has the fallback, the file is classified
C31_ClassifiedWhereFallback ==
  (OnFile /\ VerifierBearing(FileName) /\ HasFallback(FileName)) =>
     (CodeFile => ClassifiedFile)
(***************************************************************************)
(* C32.  A file with suffix `.exp` is classified as expect only if the     *)
(* Expect verifier accepts its content (load_lib with `#` comments or both *)
(* brace kinds; or both brace kinds and any of proc, if, [...], expect); a *)
(* `.exp` file that fails the verifier is never counted as expect.         *)
(***************************************************************************)
C32_ExpectOnlyIfVerified ==
  (OnText /\ FileName = "i.exp") =>
     ( (StatOf(roots[1]).Language = "expect" /\ StatOf(roots[1]).SLOC > 0)
         => reallyExpect(FileText) )

\* what does hold: a .exp file is expect whatever its content
C32_ExpectWhateverContent ==
  (OnText /\ FileName = "i.exp") =>
     /\ StatOf(roots[1]).Language = "expect"
     /\ StatOf(roots[1]).SLOC = genericCounter(FileText, "#", "").sloc

(***************************************************************************)
(* C33.  The Occam verifier accepts a `.f` file only if the file contains  *)
(* both `--` and `PROC`, and the Pop-11 verifier accepts a `.p` file only  *)
(* if the file contains both `define` and `printf`: a file showing just    *)
(* one of the two tells is rejected.                                       *)
(***************************************************************************)
\* the tells of the verifier of the file's suffix
TellsOf(name) == IF name = "h.f" THEN occamTells ELSE pop11Tells

\* the file holds every tell
HoldsAll(text, tells) == \A i \in DOMAIN tells : Contains(text, tells[i])

\* the file holds one tell at least, on a line that ends with a newline
HoldsOne(text, tells) ==
  \E i \in DOMAIN tells : hasKeywords(text, << tells[i] >>)

\* the verifier accepted: the file is counted under the verifier's language
Accepted(name) ==
  /\ fs[<< name >>].verified
  /\ StatOf(<< name >>).Language = (IF name = "h.f" THEN "occam" ELSE "pop11")

C33_BothTellsNeeded ==
  (OnText /\ FileName \in {"h.f", "j.p"}) =>
     (Accepted(FileName) => HoldsAll(FileText, TellsOf(FileName)))

\* the file holds one of the tells
HoldsAny(text, tells) == \E i \in DOMAIN tells : Contains(text, tells[i])

\* amended: one tell is needed, and a file showing neither is rejected
C33_OneTellNeeded ==
  (OnText /\ FileName \in {"h.f", "j.p"}) =>
     /\ Accepted(FileName) => HoldsAny(FileText, TellsOf(FileName))
     /\ ~HoldsAny(FileText, TellsOf(FileName)) =>
          /\ ~fs[roots[1]].verified
          /\ StatOf(roots[1]).Language \notin {"occam", "pop11"}

\* a file is accepted exactly if one tell is on a line that ends with a
\* newline
C33_OneTellEnough ==
  (OnText /\ FileName \in {"h.f", "j.p"}) =>
     (Accepted(FileName) <=> HoldsOne(FileText, TellsOf(FileName)))

\* a file like the sample tests/gcd.p, with define and without printf, is
\* counted as pop11
C33_Witness ==
  /\ OnText /\ FileName = "j.p"
  /\ Contains(FileText, pop11Tells[1]) /\ ~Contains(FileText, pop11Tells[2])
  /\ Accepted("j.p")
  /\ StatOf(roots[1]).SLOC > 0
(***************************************************************************)
(* C34.  The generated-file detector examines exactly the first 15 lines   *)
(* of a file: a marker phrase following a comment leader on any of lines 1 *)
(* to 15 rejects the file (it contributes to no language total), and a     *)
(* marker that first appears on line 16 or later does not reject it.       *)
(***************************************************************************)
\* the lines of a text from pos on, the last of them with or without its
\* newline
RECURSIVE SplitLines(_, _)
SplitLines(text, pos) ==
  IF pos > Len(text) THEN << >>
  ELSE LET n == NextNewline(text, pos)
       IN IF n = 0 THEN << SubSeq(text, pos, Len(text)) >>
          ELSE << SubSeq(text, pos, n) >> \o SplitLines(text, n + 1)

\* the comment leaders of the detector's regexp for the descriptor that
\* counts a file of this name
RowLeaders(name) ==
  LET g == FirstRow(genericLanguages, name)
  IN {"*"} \cup (IF g > 0 THEN {genericLanguages[g].eolcomment} ELSE {"#"})

\* the numbers of the lines that hold a marker phrase behind a leader
MarkedLines(name, text) ==
  LET lines == SplitLines(text, 1)
  IN { k \in DOMAIN lines :
         \E l \in RowLeaders(name) : MarkerBehind(lines[k], Bytes(l)) }

\* the same, of the lines that end with a newline
MarkedWholeLines(name, text) ==
  LET lines == SplitLines(text, 1)
  IN { k \in MarkedLines(name, text) : lines[k][Len(lines[k])] = "\n" }

\* the detector rejected the file of the run
RejectedAsGenerated == StatOf(roots[1]) = EmptyStat

\* the file of the run is counted as a file without any marker is
CountedAsWritten == StatOf(roots[1]) = Classified(FileName, FileText)

C34_FirstFifteenLines ==
  OnText =>
    /\ (\E k \in MarkedLines(FileName, FileText) : k <= 15)
         => RejectedAsGenerated
    /\ (\A k \in MarkedLines(FileName, FileText) : k >= 16)
         => CountedAsWritten

\* what does hold: the same of the lines that end with a newline
C34_FirstFifteenWholeLines ==
  OnText =>
    /\ (\E k \in MarkedWholeLines(FileName, FileText) : k <= 15)
         => RejectedAsGenerated
    /\ (\A k \in MarkedWholeLines(FileName, FileText) : k >= 16)
         => CountedAsWritten
(***************************************************************************)
(* C35.  In the C-family counter, for every catalog descriptor whose       *)
(* end-of-line comment marker is nonempty (one-byte markers such as asm's  *)
(* `;` as well as two-byte markers such as `//`), meeting the marker in    *)
(* NORMAL mode enters end-of-line-comment mode until the next newline, so  *)
(* a line consisting only of such a comment is not counted in SLOC.        *)
(***************************************************************************)
\* the text is one line, with or without its newline, that holds nothing
\* but a comment behind the marker
EolCommentLine(text, marker) ==
  /\ HasPrefix(text, marker)
  /\ \A k \in 1..(Len(text) - 1) : text[k] # "\n"

C35_EolCommentNotCounted ==
  (/\ OnText /\ FileName \in CFamilyNames
   /\ SyntaxOf(FileName).eolcomment # ""
   /\ EolCommentLine(FileText, Bytes(SyntaxOf(FileName).eolcomment))) =>
     StatOf(roots[1]).SLOC = 0

\* what does hold: the same of the markers of two bytes
C35_TwoByteMarkerNotCounted ==
  (/\ OnText /\ FileName \in CFamilyNames
   /\ Len(Bytes(SyntaxOf(FileName).eolcomment)) > 1
   /\ EolCommentLine(FileText, Bytes(SyntaxOf(FileName).eolcomment))) =>
     StatOf(roots[1]).SLOC = 0
(***************************************************************************)
(* C36.  In the C-family counter, block-comment mode is entered only when  *)
(* the descriptor's complete block-open token matches at the current byte  *)
(* and is left only when the complete close token matches, for tokens of   *)
(* every length in the catalog (e.g. for Lua, whose tokens are `--[[` and  *)
(* `]]`, a plain `-- text` line is an end-of-line comment that ends at the *)
(* newline).                                                               *)
(***************************************************************************)
\* the text begins with the end-of-line comment marker of its language and
\* not with the block-open token, and its first line ends
PlainCommentFirst(name, text) ==
  /\ HasPrefix(text, Bytes(SyntaxOf(name).eolcomment))
  /\ ~HasPrefix(text, Bytes(SyntaxOf(name).commentleader))
  /\ NextNewline(text, 1) > 0

\* the text after its first line
AfterFirstLine(text) == From(text, NextNewline(text, 1) + 1)

\* the counter ends the file inside a block comment
EndsInBlock(name, text) ==
  /\ AtEnd(name, text).mode = "INCOMMENT"
  /\ AtEnd(name, text).commentType = "BLOCK"

\* the block-open token is somewhere in the text
HoldsBlockOpen(name, text) ==
  Contains(text, Bytes(SyntaxOf(name).commentleader))

C36_CompleteTokensOnly ==
  (OnText /\ FileName \in LexNames) =>
     /\ EndsInBlock(FileName, FileText) => HoldsBlockOpen(FileName, FileText)
     /\ PlainCommentFirst(FileName, FileText) =>
          StatOf(roots[1]).SLOC
            = Classified(FileName, AfterFirstLine(FileText)).SLOC

\* what does hold: the same of the Go file, whose tokens have two bytes; and
\* a Lua file that begins with -- and holds no ]] is a comment to its end
C36_TwoByteTokens ==
  (OnText /\ FileName \in LexNames) =>
     /\ FileName = "g.go" =>
          /\ EndsInBlock(FileName, FileText)
               => HoldsBlockOpen(FileName, FileText)
          /\ PlainCommentFirst(FileName, FileText) =>
               StatOf(roots[1]).SLOC
                 = Classified(FileName, AfterFirstLine(FileText)).SLOC
     /\ ( /\ FileName = "l.lua"
          /\ HasPrefix(FileText, << "-", "-" >>)
          /\ ~Contains(FileText, << "]", "]" >>) ) =>
          StatOf(roots[1]).SLOC = 0 /\ EndsInBlock(FileName, FileText)
(***************************************************************************)
(* C37.  The C-family counter terminates on every finite file for every    *)
(* catalog descriptor; in particular, when a backtick raw string in a      *)
(* backtick-enabled language (Go) is not closed before EOF, a single       *)
(* warning is emitted, scanning stops at EOF and the partial SLOC/LLOC are *)
(* returned.                                                               *)
(***************************************************************************)
\* the file ends inside a raw string that a backtick opened
UnclosedBacktick(name, text) ==
  \/ AtEnd(name, text).mode = "INMULTISTRING"
  \/ AtEnd(name, text).hung

\* the counter wrote a warning about the file: the one of the backtick
\* loop, written when that loop meets the end of the file, or the one
\* after the end of the file
Warned(name, text) ==
  \/ AtEnd(name, text).hung
  \/ cFamilyEnd(AtEnd(name, text)).diagnostic # ""

C37_UnclosedBacktickWarns ==
  (OnText /\ FileName = "g.go") =>
     /\ ~AtEnd(FileName, FileText).hung
     /\ UnclosedBacktick(FileName, FileText) => Warned(FileName, FileText)

\* what does hold: the counter ends on every file, and an unclosed raw
\* string gives the counts up to the end of the file without any warning
C37_EndsWithoutWarning ==
  (OnText /\ FileName \in LexNames \cup CFamilyNames) =>
     /\ ~AtEnd(FileName, FileText).hung
     /\ UnclosedBacktick(FileName, FileText) =>
          /\ ~Warned(FileName, FileText)
          /\ StatOf(roots[1]).SLOC
               = cFamilyEnd(AtEnd(FileName, FileText)).sloc
(***************************************************************************)
(* C38.  In the Python counter, a triple-quoted string that opens and      *)
(* closes on the same line, whatever the length of its content, is removed *)
(* from the line without entering the triple-quote state, so the rest of   *)
(* that line and all following lines are counted as ordinary code.         *)
(***************************************************************************)
\* the file that begins with the line given counts as the file does in
\* which what is left of that line stands in its place
CountsAsWithout(line, left, rest) ==
  FileText = line \o rest =>
    /\ StatOf(roots[1]).SLOC = pythonCounter(left \o rest).sloc
    /\ StatOf(roots[1]).LLOC = pythonCounter(left \o rest).lloc

\* a one-line string with any content of OneContents is taken out of its
\* line
OneLinersRemoved(contents) ==
  \A lead \in OneLeads, q \in {dtBytes, stBytes}, content \in contents :
     \A tail \in OneTails, rest \in DocRests :
        CountsAsWithout(OneLiner(lead, q, content, tail),
                        lead \o tail \o << "\n" >>, rest)

C38_OneLineTripleRemoved ==
  (OnText /\ FileName = "p.py") => OneLinersRemoved(OneContents)

\* what does hold: the same of the strings whose content is one byte
C38_OneByteTripleRemoved ==
  (OnText /\ FileName = "p.py") => OneLinersRemoved({ << "a" >> })
(***************************************************************************)
(* C39.  In the Perl counter, while a here-document is open the POD flag   *)
(* is left unchanged by every line: lines shaped like =head or =cut inside *)
(* the here-document neither start nor end POD, and every nonempty line of *)
(* a here-document opened outside POD is counted as code.                  *)
(***************************************************************************)
\* the walk of perlCounter over the lines of a file, from line k on in the
\* state s: whether the POD flag was kept by every line read while a
\* here-document was open, the lines of here-documents opened outside POD
\* that are nonempty once stripped, and those of them that were counted
RECURSIVE hereWalk(_, _, _, _)
hereWalk(lines, k, s, acc) ==
  IF k > Len(lines) \/ s.stop THEN acc
  ELSE LET line0 == lines[k]
           read == line0[Len(line0)] = "\n"
           t == IF read THEN perlLine(line0, s) ELSE s
           inhere == s.heredoc # << >>
           owed == /\ inhere
                   /\ ~s.isinpod
                   /\ Len(Trim(Uncomment(line0), Blank)) > 0
       IN hereWalk(lines, k + 1, t,
                   [frame |-> acc.frame /\ (inhere => t.isinpod = s.isinpod),
                    here |-> acc.here \cup (IF owed THEN {k} ELSE {}),
                    counted |-> acc.counted \cup
                                  (IF owed /\ t.sloc = s.sloc + 1 THEN {k}
                                   ELSE {})])

HereWalk(text) ==
  hereWalk(SplitLines(text, 1), 1,
           [heredoc |-> << >>, isinpod |-> FALSE, stop |-> FALSE,
            sloc |-> 0, lloc |-> 0],
           [frame |-> TRUE, here |-> {}, counted |-> {}])

\* the file of the run is a Perl file counted by perlCounter
OnPerl ==
  /\ OnText
  /\ FileName = "q.pl"
  /\ StatOf(roots[1]).SLOC = perlCounter(FileText).sloc

C39_HereDocumentIsCode ==
  OnPerl =>
    /\ HereWalk(FileText).frame
    /\ HereWalk(FileText).here = HereWalk(FileText).counted

\* what does hold: the POD flag is kept
C39_PodFlagKept == OnPerl => HereWalk(FileText).frame

\* what does hold: a here-document line that ends with a newline and does
\* not begin with __END__ is counted
C39_CountedUnlessEndOrTorn ==
  OnPerl =>
    \A k \in HereWalk(FileText).here \ HereWalk(FileText).counted :
       LET line0 == SplitLines(FileText, 1)[k]
       IN \/ line0[Len(line0)] # "\n"
          \/ HasPrefix(Trim(Uncomment(line0), Blank),
                       << "_", "_", "E", "N", "D", "_", "_" >>)
(***************************************************************************)
(* C40.  For the line-based counters (generic, Python, Perl), LLOC never   *)
(* exceeds SLOC after any prefix of the file's lines, and a file counted   *)
(* by the Fortran counter always has LLOC = 0.                             *)
(***************************************************************************)
\* the names of TextNames that genericCounter, pythonCounter and
\* perlCounter count
LineCounted == {"d.adb", "p.py", "q.pl"}

\* the first k lines of a text
RECURSIVE JoinLines(_, _)
JoinLines(lines, k) ==
  IF k = 0 THEN << >> ELSE JoinLines(lines, k - 1) \o lines[k]

\* the numbers a line-based counter holds after each prefix of the lines:
\* its loop reads line by line from a state that only the lines before
\* have made, so they are the numbers it returns for the prefix
PrefixCounts(name, text) ==
  LET lines == SplitLines(text, 1)
  IN { CountOf(name, JoinLines(lines, k)) : k \in 0..Len(lines) }

FortranNames == { fortranLikes[i].name : i \in DOMAIN fortranLikes }

C40_StatementsWithinLines ==
  OnText =>
    /\ FileName \in LineCounted =>
         /\ \A c \in PrefixCounts(FileName, FileText) : c.lloc <= c.sloc
         /\ StatOf(roots[1]).LLOC <= StatOf(roots[1]).SLOC
    /\ StatOf(roots[1]).Language \in FortranNames =>
         StatOf(roots[1]).LLOC = 0

\* a Perl file of several counted lines, some of them statements and some
\* not
C40_Witness ==
  /\ OnText
  /\ FileName = "q.pl"
  /\ StatOf(roots[1]).SLOC >= 3
  /\ StatOf(roots[1]).LLOC > 0
  /\ StatOf(roots[1]).LLOC < StatOf(roots[1]).SLOC
  /\ \E c \in PrefixCounts(FileName, FileText) :
        c.sloc < StatOf(roots[1]).SLOC /\ c.lloc = c.sloc /\ c.sloc > 0

\* a counted Fortran file
C40_FortranCounted ==
  /\ OnText
  /\ StatOf(roots[1]).Language \in FortranNames
  /\ StatOf(roots[1]).SLOC >= 2
  /\ StatOf(roots[1]).LLOC = 0

====
